---- MODULE Spec2Model ----
(***************************************************************************)
(* The embedding pipelines of flutter_embedder (rust/src/api/embeddings)   *)
(* as one state machine.  An embedder instance is a model family with its  *)
(* session signature and tokenizer padding; one embed call is cut at its   *)
(* two external calls: tokenizer.encode_batch and session.run.             *)
(*                                                                         *)
(* Numbers.  An f32 vector is kept exactly as [num, den2, exp10], denoting  *)
(* the real vector num[i] / (sqrt(den2) * 10^exp10); float rounding is not  *)
(* modelled, the f32 range (a sum of squares that overflows) is.  The       *)
(* data of an engine output tensor is a fixed pattern of the tensor's name *)
(* and the flat index, so that rows taken from different tensors or from   *)
(* different offsets differ.                                               *)
(***************************************************************************)
EXTENDS Integers, Sequences, FiniteSets, TLC

\* Largest number of texts in one embed call.
MaxBatch == 2

\* gemma.rs: const HIDDEN_DIM: usize = 768
HIDDEN_DIM == 768

Families == {"BGE", "MiniLM", "JinaV3", "Gemma", "Qwen3"}

\* The one text the callers pass; the tokenizer, not the text, decides the encoding.
Texts == {"text"}

-----------------------------------------------------------------------------
(* Result<Vec<Vec<f32>>>: Ok(rows), Err(message), or a panic (abort).      *)

Ok(rows) == [kind |-> "ok", rows |-> rows, msg |-> ""]
Err(m) == [kind |-> "err", rows |-> <<>>, msg |-> m]
Panic(m) == [kind |-> "panic", rows |-> <<>>, msg |-> m]
NoResult == [kind |-> "none", rows |-> <<>>, msg |-> ""]

-----------------------------------------------------------------------------
(* Vectors.                                                                *)

Raw(v) == [num |-> v, den2 |-> 1, exp10 |-> 0]

\* sum of x*x over the vector (summed by halves, to keep the evaluation shallow)
RECURSIVE SumSq(_)
SumSq(v) ==
    IF Len(v) = 0 THEN 0
    ELSE IF Len(v) = 1 THEN v[1] * v[1]
    ELSE LET half == Len(v) \div 2
         IN  SumSq(SubSeq(v, 1, half)) + SumSq(SubSeq(v, half + 1, Len(v)))

RECURSIVE Product(_)
Product(s) == IF s = <<>> THEN 1 ELSE Head(s) * Product(Tail(s))

Zeros(n) == [i \in 1..n |-> 0]

\* A normalize that leaves the vector as it is.
normalizeSkipped(x) == x

\* A normalize without the floor: x / norm, which is 0/0 (den2 = 0) for the zero vector.
normalize_no_floor(x) == [num |-> x.num, den2 |-> SumSq(x.num), exp10 |-> 0]

\* 10^n for 0 <= n <= 9 (the powers a 32-bit integer holds).
Pow10(n) == CASE n = 0 -> 1 [] n = 1 -> 10 [] n = 2 -> 100 [] n = 3 -> 1000
              [] n = 4 -> 10000 [] n = 5 -> 100000 [] n = 6 -> 1000000
              [] n = 7 -> 10000000 [] n = 8 -> 100000000 [] n = 9 -> 1000000000

\* m1 * 10^e1 < m2 * 10^e2 for naturals m1, m2 below 10^9, without overflow.
LessScaled(m1, e1, m2, e2) ==
    IF m2 = 0 THEN FALSE
    ELSE IF m1 = 0 THEN TRUE
    ELSE LET d == e1 - e2
         IN  IF d >= 10 THEN FALSE
             ELSE IF d <= -10 THEN TRUE
             ELSE IF d >= 0 THEN m1 < (m2 + Pow10(d) - 1) \div Pow10(d)
             ELSE m1 \div Pow10(-d) < m2

\* The real norm of x is below the floor 1e-9 of normalize:
\* SumSq(num) / (den2 * 10^(2 exp10)) < 10^-18.
NormBelowFloor(x) == LessScaled(SumSq(x.num), -2 * x.exp10, x.den2, -18)

\* The f32 sum of squares of x is infinite: it exceeds f32::MAX = 3.4028235e38.
NormOverflows(x) == LessScaled(x.den2 * 34028235, 31, SumSq(x.num), -2 * x.exp10)

\* utils.rs normalize: norm = sqrt(sum x*x), floored at 1e-9; x / norm.
\* For x = num/(sqrt(den2) 10^exp10): norm^2 = SumSq(num)/(den2 10^(2 exp10)), so
\* x/norm = num/sqrt(SumSq(num)); below the floor x/1e-9 = x * 10^9 (the zero vector
\* stays the zero vector); above the f32 range norm is infinite and x/norm is 0.
normalize(x) ==
    IF SumSq(x.num) = 0 THEN Raw(x.num)
    ELSE IF NormBelowFloor(x) THEN [num |-> x.num, den2 |-> x.den2, exp10 |-> x.exp10 - 9]
    ELSE IF NormOverflows(x) THEN Raw(Zeros(Len(x.num)))
    ELSE [num |-> x.num, den2 |-> SumSq(x.num), exp10 |-> 0]

\* fit_mask (minilm.rs, jina_v3.rs, qwen3.rs: the same text three times).
fit_mask(mask, target_len) ==
    IF Len(mask) = target_len THEN mask
    ELSE IF Len(mask) > target_len THEN SubSeq(mask, 1, target_len)
    ELSE mask \o Zeros(target_len - Len(mask))

RECURSIVE SumOver(_, _)
SumOver(f, S) ==
    IF S = {} THEN 0
    ELSE LET j == CHOOSE j \in S : TRUE IN f[j] + SumOver(f, S \ {j})

\* The f32 values that are not finite (NaN, +inf, -inf), as one value outside the range
\* of the finite values and sums of the model.
NaN == 1000000

\* f32 x * m for a mask weight m of 0.0 or 1.0: a value that is not finite times 0.0
\* is NaN.
MulF32(x, m) == IF x = NaN THEN NaN ELSE x * m

\* The f32 sum of f over S: not finite once a term is not finite.
SumF32(f, S) == IF \E j \in S : f[j] = NaN THEN NaN ELSE SumOver(f, S)

\* A mean pooling that returns no vector at all for an all-zero mask.
mean_pooling_no_zeros(emb, seq_len, hidden_size, attention_mask) ==
    IF seq_len = 0 \/ hidden_size = 0 THEN Raw(<<>>)
    ELSE
        LET mask == [j \in 1..seq_len |->
                       IF j <= Len(attention_mask) /\ attention_mask[j] # 0 THEN 1 ELSE 0]
            count == SumOver(mask, 1..seq_len)
        IN  IF count <= 0 THEN Raw(<<>>)
            ELSE [num  |-> [h \in 1..hidden_size |->
                              SumOver([j \in 1..seq_len |->
                                         emb[(j - 1) * hidden_size + h] * mask[j]],
                                      1..seq_len)],
                  den2 |-> count * count, exp10 |-> 0]

\* A mean pooling that divides by the mask count whatever it is.
mean_pooling_dividing(emb, seq_len, hidden_size, attention_mask) ==
    IF seq_len = 0 \/ hidden_size = 0 THEN Raw(<<>>)
    ELSE
        LET mask  == [j \in 1..seq_len |->
                        IF j <= Len(attention_mask) /\ attention_mask[j] # 0 THEN 1 ELSE 0]
            count == SumOver(mask, 1..seq_len)
        IN  [num  |-> [h \in 1..hidden_size |->
                         SumF32([j \in 1..seq_len |->
                                   MulF32(emb[(j - 1) * hidden_size + h], mask[j])],
                                1..seq_len)],
             den2 |-> count * count, exp10 |-> 0]

\* A mean pooling whose weights are the mask's entries themselves.
mean_pooling_weighted(emb, seq_len, hidden_size, attention_mask) ==
    IF seq_len = 0 \/ hidden_size = 0 THEN Raw(<<>>)
    ELSE
        LET mask  == [j \in 1..seq_len |->
                        IF j <= Len(attention_mask) THEN attention_mask[j] ELSE 0]
            count == SumOver(mask, 1..seq_len)
        IN  IF count <= 0 THEN Raw(Zeros(hidden_size))
            ELSE [num  |-> [h \in 1..hidden_size |->
                              SumF32([j \in 1..seq_len |->
                                        MulF32(emb[(j - 1) * hidden_size + h], mask[j])],
                                     1..seq_len)],
                  den2 |-> count * count, exp10 |-> 0]

\* embeddings.into_iter().flatten().collect()
RECURSIVE FlattenRows(_)
FlattenRows(rows) ==
    IF rows = <<>> THEN <<>> ELSE Head(rows) \o FlattenRows(Tail(rows))

\* utils.rs mean_pooling_ndarray over a seq_len x hidden_size matrix given row-major
\* as the flat sequence emb.
mean_pooling_ndarray(emb, seq_len, hidden_size, attention_mask) ==
    IF seq_len = 0 \/ hidden_size = 0 THEN Raw(<<>>)
    ELSE
        LET taken == SubSeq(attention_mask, 1,
                            IF Len(attention_mask) < seq_len
                            THEN Len(attention_mask) ELSE seq_len)
            ones  == [j \in 1..Len(taken) |-> IF taken[j] = 0 THEN 0 ELSE 1]
            mask  == ones \o Zeros(seq_len - Len(ones))
            count == SumOver(mask, 1..seq_len)
        IN  IF count <= 0 THEN Raw(Zeros(hidden_size))
            ELSE [num  |-> [h \in 1..hidden_size |->
                              SumF32([j \in 1..seq_len |->
                                        MulF32(emb[(j - 1) * hidden_size + h], mask[j])],
                                     1..seq_len)],
                  den2 |-> count * count, exp10 |-> 0]

\* utils.rs mean_pooling_vec over the rows of a Vec<Vec<f32>>.
mean_pooling_vec(embeddings, attention_mask) ==
    LET seq_len == Len(embeddings)
    IN  IF seq_len = 0 THEN Raw(<<>>)
        ELSE LET hidden == Len(embeddings[1])
                 flat == FlattenRows(embeddings)
             IN  IF hidden = 0 THEN Raw(<<>>)
                 ELSE IF Len(attention_mask) # seq_len THEN Raw(<<>>)
                 ELSE IF Len(flat) = seq_len * hidden
                 THEN mean_pooling_ndarray(flat, seq_len, hidden, attention_mask)
                 ELSE Raw(<<>>)

-----------------------------------------------------------------------------
(* The session's declared inputs (ort ValueType) and the embedder instances. *)

\* ValueType::Tensor { ty, shape }: a negative extent is a dynamic axis.
TensorInput(name, ty, shape) == [name |-> name, tensor |-> TRUE, ty |-> ty, shape |-> shape]
\* Any other ValueType (Sequence, Map, Optional).
OtherInput(name) == [name |-> name, tensor |-> FALSE, ty |-> "Sequence", shape |-> <<>>]

\* The element types tensor_from_i64 and zeros_tensor both match on.
SupportedTypes ==
    {"Int8", "Int16", "Int32", "Int64", "Uint8", "Uint16", "Uint32", "Uint64",
     "Bool", "Float16", "Bfloat16", "Float32", "Float64"}

NoPadding == [some |-> FALSE, pad_id |-> 0]
Padding(id) == [some |-> TRUE, pad_id |-> id]

IdsAndMask ==
    << TensorInput("input_ids", "Int64", <<-1, -1>>),
       TensorInput("attention_mask", "Int64", <<-1, -1>>) >>

WithTokenTypes == IdsAndMask \o << TensorInput("token_type_ids", "Int64", <<-1, -1>>) >>

\* Qwen3 signatures: the roles of qwen3.rs embed, in several ranks and element types.
SigDecoder ==
    << TensorInput("input_ids", "Int64", <<-1, -1>>),
       TensorInput("attention_mask", "Int64", <<-1, -1>>),
       TensorInput("position_ids", "Int64", <<-1, -1>>),
       TensorInput("past_key_values.0.key", "Float32", <<-1, 2, -1, 4>>),
       TensorInput("token_type_ids", "Int8", <<-1, -1>>),
       TensorInput("extra_state", "Float16", <<-1, -1, 3>>) >>

SigBias ==
    << TensorInput("attention_mask", "Bool", <<-1, 1, -1, -1>>),
       TensorInput("task", "Int32", <<-1>>),
       TensorInput("input_ids", "Int32", <<-1, -1>>),
       TensorInput("cache_position", "Uint8", <<-1, -1>>) >>

SigRank1 ==
    << TensorInput("input_ids", "Int64", <<-1, -1>>),
       TensorInput("attention_mask", "Int64", <<-1>>),
       TensorInput("position_ids", "Int64", <<-1>>) >>

SigFixed ==
    << TensorInput("scale", "Float64", <<-1, -1>>),
       TensorInput("input_ids", "Int64", <<2, 2>>),
       TensorInput("attention_mask", "Int64", <<-1, 2>>) >>

SigString ==
    << TensorInput("input_ids", "Int64", <<-1, -1>>),
       TensorInput("attention_mask", "String", <<-1, -1>>) >>

SigSequence ==
    << TensorInput("input_ids", "Int64", <<-1, -1>>),
       OtherInput("past_key_values.0.value") >>

SigAllDynamic ==
    << TensorInput("attention_mask", "Int64", <<-1, -1, -1, -1>>),
       TensorInput("input_ids", "Int64", <<-1, -1>>) >>

SigTransposed ==
    << TensorInput("input_ids", "Int64", <<-1, -1>>),
       TensorInput("attention_mask", "Int64", <<2, 1>>),
       TensorInput("cache_position", "Int32", <<-1>>) >>

Qwen3Signatures ==
    {SigDecoder, SigBias, SigRank1, SigFixed, SigString, SigSequence, SigAllDynamic,
     SigTransposed}

\* hidden is the embedding width of the instance's model: the last extent of the
\* outputs the model is built to return.
Instance(f, declared, padding) ==
    [family |-> f, declared |-> declared, padding |-> padding,
     hidden |-> IF f = "Gemma" THEN HIDDEN_DIM ELSE 1]

\* The embedders that create() can return: a family, its session's inputs and the
\* tokenizer's padding configuration.
Instances ==
    { Instance("BGE", IdsAndMask, NoPadding), Instance("BGE", WithTokenTypes, Padding(9)),
      Instance("MiniLM", IdsAndMask, Padding(9)), Instance("MiniLM", WithTokenTypes, NoPadding),
      Instance("JinaV3", IdsAndMask \o <<TensorInput("task_id", "Int64", <<-1>>)>>, NoPadding),
      Instance("Gemma", IdsAndMask, Padding(9)) }
    \cup { Instance("Qwen3", sig, Padding(9)) : sig \in Qwen3Signatures \ {SigDecoder} }
    \cup { Instance("Qwen3", SigDecoder, NoPadding) }

-----------------------------------------------------------------------------
(* What the external collaborators can return.                              *)

\* tokenizers::Encoding rows: ids and an attention mask of the same length.
EncRows ==
    { [ids |-> <<>>, mask |-> <<>>],
      [ids |-> <<7>>, mask |-> <<1>>],
      [ids |-> <<9, 8>>, mask |-> <<1, 1>>],
      [ids |-> <<5, 6>>, mask |-> <<0, 0>>] }

\* encode_batch returns one Encoding per text.
EncodingsFor(n) == [1..n -> EncRows]

TaskIds == {0, 1}

OutNames ==
    <<"sentence_embedding", "pooled_output", "pooler_output", "embedding", "last_hidden_state">>

\* The position of name in OutNames.
NameSeed(name) ==
    CASE name = "sentence_embedding" -> 1
      [] name = "pooled_output"      -> 2
      [] name = "pooler_output"      -> 3
      [] name = "embedding"          -> 4
      [] name = "last_hidden_state"  -> 5

\* Element k (from 0) of the data of the output tensor called name: -2..2, a pattern
\* that starts differently for each of the five names.
At(name, k) == ((k + NameSeed(name)) % 5) - 2

\* The output names a family's embed looks at, and one it ignores.
NamesFor(f) ==
    IF f \in {"Gemma", "JinaV3"} THEN {"sentence_embedding", "last_hidden_state"}
    ELSE {OutNames[i] : i \in 1..Len(OutNames)}

ExtentsFor(f) ==
    {0, 1, MaxBatch} \cup (IF f = "Gemma" THEN {384, HIDDEN_DIM, 2 * HIDDEN_DIM} ELSE {})

\* Output shapes of rank 0 to 3, and rank 4 with a trailing unit axis.
ShapesFor(f) ==
    LET upTo3 == UNION {[1..r -> ExtentsFor(f)] : r \in 0..3}
    IN  upTo3 \cup {s \o <<1>> : s \in [1..3 -> ExtentsFor(f)]}

OutTensorsFor(f) ==
    {[shape |-> s, ty |-> "Float32"] : s \in ShapesFor(f)}
      \cup {[shape |-> <<1, 1>>, ty |-> "Float16"]}

\* SessionOutputs: at most two named tensors (of one shape; their data differ by name).
OutputsFor(f) ==
    { [n \in N |-> t] : N \in {N \in SUBSET NamesFor(f) : Cardinality(N) <= 2},
                        t \in OutTensorsFor(f) }

-----------------------------------------------------------------------------
(* Batch Normalizer: the padding loop every embed runs after encode_batch.  *)

RECURSIVE Concat(_)
Concat(seqs) == IF seqs = <<>> THEN <<>> ELSE Head(seqs) \o Concat(Tail(seqs))

Repeat(v, n) == [i \in 1..n |-> v]

MaxOf(S) == IF S = {} THEN 0 ELSE CHOOSE m \in S : \A x \in S : x <= m

\* tokenizer.get_padding().map(|p| p.pad_id as i64).unwrap_or(0)
PadId(padding) == IF padding.some THEN padding.pad_id ELSE 0

\* encodings.iter().map(|e| e.get_ids().len()).max().unwrap_or(0)
MaxLenOf(encodings) == MaxOf({Len(encodings[i].ids) : i \in 1..Len(encodings)})

\* max_len.saturating_sub(ids.len())
PadLen(row, max_len) == IF max_len > Len(row.ids) THEN max_len - Len(row.ids) ELSE 0

PaddedIds(row, max_len, pad_id) == row.ids \o Repeat(pad_id, PadLen(row, max_len))

\* A mask padded with ones.
PaddedMaskOnes(row, max_len) == row.mask \o Repeat(1, PadLen(row, max_len))

PaddedMask(row, max_len) == row.mask \o Repeat(0, PadLen(row, max_len))

\* input_ids_batch, mask_batch (flat, row-major) and masks_u32 (per row).
BuildBatch(encodings, padding) ==
    LET max_len == MaxLenOf(encodings)
        n == Len(encodings)
    IN  [max_len |-> max_len,
         ids   |-> Concat([i \in 1..n |-> PaddedIds(encodings[i], max_len, PadId(padding))]),
         mask  |-> Concat([i \in 1..n |-> PaddedMask(encodings[i], max_len)]),
         masks |-> [i \in 1..n |-> PaddedMask(encodings[i], max_len)]]

\* A tensor handed to session.run.
InTensor(name, ty, shape, data) == [name |-> name, ty |-> ty, shape |-> shape, data |-> data]

Declares(declared, name) == \E i \in 1..Len(declared) : declared[i].name = name

\* bge.rs / minilm.rs: ort::inputs! with input_ids and attention_mask, and
\* token_type_ids when the session declares it.
BertInputs(declared, batch, b) ==
    << InTensor("input_ids", "Int64", <<batch, b.max_len>>, b.ids),
       InTensor("attention_mask", "Int64", <<batch, b.max_len>>, b.mask) >>
    \o (IF Declares(declared, "token_type_ids")
        THEN << InTensor("token_type_ids", "Int64", <<batch, b.max_len>>,
                         Repeat(0, batch * b.max_len)) >>
        ELSE <<>>)

\* gemma.rs: input_ids and attention_mask only.
GemmaInputs(batch, b) ==
    << InTensor("input_ids", "Int64", <<batch, b.max_len>>, b.ids),
       InTensor("attention_mask", "Int64", <<batch, b.max_len>>, b.mask) >>

\* jina_v3.rs: input_ids, attention_mask and task_id repeated per row.
JinaInputs(batch, b, task_id) ==
    << InTensor("input_ids", "Int64", <<batch, b.max_len>>, b.ids),
       InTensor("attention_mask", "Int64", <<batch, b.max_len>>, b.mask),
       InTensor("task_id", "Int64", <<batch>>, Repeat(task_id, batch)) >>

-----------------------------------------------------------------------------
(* Dynamic Input Synthesizer and Dtype Caster (qwen3.rs).                   *)

NoTensor == InTensor("", "", <<>>, <<>>)
Built(t) == [ok |-> TRUE, tensor |-> t, err |-> ""]
NotBuilt(m) == [ok |-> FALSE, tensor |-> NoTensor, err |-> m]

Resolved(shape) == [ok |-> TRUE, shape |-> shape, err |-> ""]
Unresolved(m) == [ok |-> FALSE, shape |-> <<>>, err |-> m]

\* The declared names of the model's universe that start with "past_key_values".
PastKvNames == {"past_key_values.0.key", "past_key_values.0.value"}

\* A repeat that lays the data down back to front.
repeat_i64_reversed(data, times) ==
    Concat([i \in 1..times |-> [k \in 1..Len(data) |-> data[Len(data) + 1 - k]]])

\* fn repeat_i64
repeat_i64(data, times) == Concat([i \in 1..times |-> data])

\* A shape resolution that keeps only the positive declared extents.
resolve_shape_positive_only(dtype, fallback) ==
    IF ~dtype.tensor THEN Unresolved("Unsupported input type")
    ELSE IF Len(dtype.shape) # Len(fallback) THEN Resolved(fallback)
    ELSE Resolved([i \in 1..Len(fallback) |->
                     IF dtype.shape[i] > 0 THEN dtype.shape[i] ELSE fallback[i]])

\* fn resolve_shape_with_fallback
resolve_shape_with_fallback(dtype, fallback) ==
    IF ~dtype.tensor THEN Unresolved("Unsupported input type")
    ELSE IF Len(dtype.shape) # Len(fallback) THEN Resolved(fallback)
    ELSE Resolved([i \in 1..Len(fallback) |->
                     IF dtype.shape[i] >= 0 THEN dtype.shape[i] ELSE fallback[i]])

\* A past-kv resolution that gives every dynamic axis but the batch the extent 1.
resolve_past_kv_ones(dtype, batch) ==
    IF ~dtype.tensor THEN Unresolved("Unsupported input type")
    ELSE Resolved([i \in 1..Len(dtype.shape) |->
                     IF dtype.shape[i] >= 0 THEN dtype.shape[i]
                     ELSE IF i - 1 = 0 THEN batch
                     ELSE 1])

\* fn resolve_past_kv_shape (idx counts from 0 in the source)
resolve_past_kv_shape(dtype, batch) ==
    IF ~dtype.tensor THEN Unresolved("Unsupported input type")
    ELSE LET rank == Len(dtype.shape)
             second_last == IF rank >= 2 THEN rank - 2 ELSE 0
         IN  Resolved([i \in 1..rank |->
                         IF dtype.shape[i] >= 0 THEN dtype.shape[i]
                         ELSE IF i - 1 = 0 THEN batch
                         ELSE IF i - 1 = second_last THEN 0
                         ELSE 1])

\* 2^w + v for a negative v and w = 32 or 64: the value of `v as u32` and `v as u64`,
\* which is beyond the integers of the model and is kept as the pair (w, v).
Wrapped(w, v) == [pow2 |-> w, plus |-> v]

\* The infinity of a floating type, with its sign.
Inf(sign) == [inf |-> sign]

\* 2^p for the significands of the floating types: 8, 11 and 24 bits.
SignificandLimit(p) == CASE p = 8 -> 256 [] p = 11 -> 2048 [] OTHER -> 16777216

\* The unit in the last place of a significand of p bits at a >= 2^p: the least power
\* of two u, from u on, with a / u < 2^p.
RECURSIVE UlpAt(_, _, _)
UlpAt(a, p, u) == IF a \div u < SignificandLimit(p) THEN u ELSE UlpAt(a, p, 2 * u)

\* |v|
Abs(v) == IF v < 0 THEN -v ELSE v

\* The magnitude a rounded to a multiple of ulp, ties to the even multiple.
RoundMagnitude(a, ulp) ==
    IF 2 * (a % ulp) > ulp \/ (2 * (a % ulp) = ulp /\ (a \div ulp) % 2 = 1)
    THEN (a \div ulp + 1) * ulp
    ELSE (a \div ulp) * ulp

\* The nearest value with a significand of p bits, ties to even: the rounding of a
\* conversion to a binary floating type at the integer v.
RoundToBits(v, p) ==
    IF Abs(v) < SignificandLimit(p) THEN v
    ELSE IF v < 0 THEN -RoundMagnitude(-v, UlpAt(-v, p, 2))
    ELSE RoundMagnitude(v, UlpAt(v, p, 2))

\* half::f16::from_f32(v as f32): 11 bits of significand, infinity above 65504. The
\* step `v as f32` is exact below 2^24, where every integer the model casts lies.
CastF16(v) ==
    IF RoundToBits(v, 11) > 65504 THEN Inf(1)
    ELSE IF RoundToBits(v, 11) < -65504 THEN Inf(-1)
    ELSE RoundToBits(v, 11)

\* half::bf16::from_f32(v as f32): 8 bits of significand.
CastBf16(v) == RoundToBits(v, 8)

\* A cast that clamps to the integer type's range instead of wrapping.
CastI64Saturating(ty, v) ==
    LET Clamp(lo, hi) == IF v < lo THEN lo ELSE IF v > hi THEN hi ELSE v
    IN  CASE ty = "Int8"   -> Clamp(-128, 127)
          [] ty = "Int16"  -> Clamp(-32768, 32767)
          [] ty = "Uint8"  -> Clamp(0, 255)
          [] ty = "Uint16" -> Clamp(0, 65535)
          [] ty = "Uint32" -> IF v < 0 THEN Wrapped(32, v) ELSE v
          [] ty = "Uint64" -> IF v < 0 THEN Wrapped(64, v) ELSE v
          [] ty = "Bool"   -> IF v # 0 THEN 1 ELSE 0
          [] ty = "Float16"  -> CastF16(v)
          [] ty = "Bfloat16" -> CastBf16(v)
          [] ty = "Float32"  -> RoundToBits(v, 24)
          [] OTHER         -> v

\* Rust's `v as T` on the i64 values of the batch: an integer type wraps modulo 2^w,
\* Bool is v != 0 (false and true kept as 0 and 1), a floating type rounds to its
\* significand. Int32, Int64 and Float64 hold every integer of the model exactly.
CastI64(ty, v) ==
    CASE ty = "Int8"   -> ((v + 128) % 256) - 128
      [] ty = "Int16"  -> ((v + 32768) % 65536) - 32768
      [] ty = "Uint8"  -> v % 256
      [] ty = "Uint16" -> v % 65536
      [] ty = "Uint32" -> IF v < 0 THEN Wrapped(32, v) ELSE v
      [] ty = "Uint64" -> IF v < 0 THEN Wrapped(64, v) ELSE v
      [] ty = "Bool"   -> IF v # 0 THEN 1 ELSE 0
      [] ty = "Float16"  -> CastF16(v)
      [] ty = "Bfloat16" -> CastBf16(v)
      [] ty = "Float32"  -> RoundToBits(v, 24)
      [] OTHER         -> v

\* fn tensor_from_i64
tensor_from_i64(name, dtype, shape, data) ==
    IF ~dtype.tensor THEN NotBuilt("Unsupported input type")
    ELSE IF Product(shape) # Len(data) THEN NotBuilt("Input data length mismatch")
    ELSE IF dtype.ty \in SupportedTypes
    THEN Built(InTensor(name, dtype.ty, shape, [i \in 1..Len(data) |-> CastI64(dtype.ty, data[i])]))
    ELSE NotBuilt("Unsupported tensor element type")

\* A zeros builder that knows the integer element types only.
zeros_tensor_integers(name, dtype, shape) ==
    IF ~dtype.tensor THEN NotBuilt("Unsupported input type")
    ELSE IF dtype.ty \in SupportedTypes \ {"Float16", "Bfloat16", "Float32", "Float64"}
    THEN Built(InTensor(name, dtype.ty, shape, Repeat(0, Product(shape))))
    ELSE NotBuilt("Unsupported tensor element type")

\* fn zeros_tensor
zeros_tensor(name, dtype, shape) ==
    IF ~dtype.tensor THEN NotBuilt("Unsupported input type")
    ELSE IF dtype.ty \in SupportedTypes
    THEN Built(InTensor(name, dtype.ty, shape, Repeat(0, Product(shape))))
    ELSE NotBuilt("Unsupported tensor element type")

\* `if let ValueType::Tensor { shape, .. } = input.dtype() { shape.len() } else { d }`
RankOr(dtype, d) == IF dtype.tensor THEN Len(dtype.shape) ELSE d

\* A loop body that fills every declared input with zeros, whatever its rank and the
\* batch size.
SynthesizeInputZeros(input, batch, b) ==
    zeros_tensor(input.name, input,
                 IF RankOr(input, 2) = 1 THEN <<b.max_len>> ELSE <<batch, b.max_len>>)

\* The arm of `match name` for one declared input (qwen3.rs embed, the loop body).
\* b is the padded batch, batch the batch size.
SynthesizeInput(input, batch, b) ==
    LET name == input.name
        FromI64(res, data) ==
            IF res.ok THEN tensor_from_i64(name, input, res.shape, data) ELSE NotBuilt(res.err)
        ZerosOf(res) ==
            IF res.ok THEN zeros_tensor(name, input, res.shape) ELSE NotBuilt(res.err)
        position_ids == [i \in 1..b.max_len |-> i - 1]
    IN
    IF name = "input_ids"
    THEN FromI64(resolve_shape_with_fallback(input, <<batch, b.max_len>>), b.ids)
    ELSE IF name = "attention_mask"
    THEN LET rank == RankOr(input, 2)
         IN  IF rank = 1
             THEN IF batch > 1 THEN NotBuilt("attention_mask rank 1 is not batch-compatible")
                  ELSE FromI64(resolve_shape_with_fallback(input, <<b.max_len>>),
                               SubSeq(b.mask, 1, b.max_len))
             ELSE IF rank = 4
             THEN FromI64(resolve_shape_with_fallback(input, <<batch, 1, b.max_len, b.max_len>>),
                          Concat([i \in 1..Len(b.masks) |-> repeat_i64(b.masks[i], b.max_len)]))
             ELSE FromI64(resolve_shape_with_fallback(input, <<batch, b.max_len>>), b.mask)
    ELSE IF name \in {"position_ids", "cache_position"}
    THEN LET rank == RankOr(input, 2)
         IN  IF rank = 1
             THEN IF batch > 1 THEN NotBuilt("position_ids rank 1 is not batch-compatible")
                  ELSE FromI64(resolve_shape_with_fallback(input, <<b.max_len>>), position_ids)
             ELSE FromI64(resolve_shape_with_fallback(input, <<batch, b.max_len>>),
                          repeat_i64(position_ids, batch))
    ELSE IF name = "token_type_ids"
    THEN ZerosOf(resolve_shape_with_fallback(input, <<batch, b.max_len>>))
    ELSE IF name \in PastKvNames
    THEN ZerosOf(resolve_past_kv_shape(input, batch))
    ELSE LET rank == RankOr(input, 1)
             fallback == IF rank = 1 THEN <<b.max_len>>
                         ELSE IF rank = 2 THEN <<batch, b.max_len>>
                         ELSE Repeat(1, rank)
         IN  ZerosOf(resolve_shape_with_fallback(input, fallback))

Synthesized(inputs) == [ok |-> TRUE, inputs |-> inputs, err |-> ""]
NotSynthesized(m) == [ok |-> FALSE, inputs |-> <<>>, err |-> m]

\* The loop `for input in self.session.inputs()`: one tensor pushed per declared
\* input, in declared order; the first arm that fails returns its error.
\* The arm `_ if name.starts_with("past_key_values")` on its own: the resolved shape
\* and the tensor zeros_tensor builds for it.
PastKvArm(input, batch) ==
    LET res == resolve_past_kv_shape(input, batch)
    IN  [shape  |-> res,
         tensor |-> IF res.ok THEN zeros_tensor(input.name, input, res.shape)
                    ELSE NotBuilt(res.err)]

RECURSIVE SynthesizeFrom(_, _, _, _, _)
SynthesizeFrom(declared, i, batch, b, acc) ==
    IF i > Len(declared) THEN Synthesized(acc)
    ELSE LET r == SynthesizeInput(declared[i], batch, b)
         IN  IF r.ok THEN SynthesizeFrom(declared, i + 1, batch, b, Append(acc, r.tensor))
             ELSE NotSynthesized(r.err)

Qwen3Inputs(declared, batch, b) == SynthesizeFrom(declared, 1, batch, b, <<>>)

\* A batch check that takes the declared extent without comparing it.
Qwen3BatchUnchecked(declared, n) ==
    LET S == {i \in 1..Len(declared) : declared[i].name = "input_ids"}
    IN  IF S = {} THEN [ok |-> TRUE, batch |-> n]
        ELSE LET input == declared[CHOOSE i \in S : \A j \in S : i <= j]
             IN  IF ~input.tensor \/ input.shape = <<>> THEN [ok |-> TRUE, batch |-> n]
                 ELSE IF input.shape[1] > 0 THEN [ok |-> TRUE, batch |-> input.shape[1]]
                 ELSE [ok |-> TRUE, batch |-> n]

\* A batch check that lets a batch smaller than the declared extent through.
Qwen3BatchAtMost(declared, n) ==
    LET S == {i \in 1..Len(declared) : declared[i].name = "input_ids"}
    IN  IF S = {} THEN [ok |-> TRUE, batch |-> n]
        ELSE LET input == declared[CHOOSE i \in S : \A j \in S : i <= j]
             IN  IF ~input.tensor \/ input.shape = <<>> THEN [ok |-> TRUE, batch |-> n]
                 ELSE LET dim == input.shape[1]
                      IN  IF dim > 0 /\ dim < n THEN [ok |-> FALSE, batch |-> n]
                          ELSE IF dim > 0 THEN [ok |-> TRUE, batch |-> dim]
                          ELSE [ok |-> TRUE, batch |-> n]

\* qwen3.rs embed, the first loop: the declared batch extent of input_ids.
Qwen3Batch(declared, n) ==
    LET S == {i \in 1..Len(declared) : declared[i].name = "input_ids"}
    IN  IF S = {} THEN [ok |-> TRUE, batch |-> n]
        ELSE LET input == declared[CHOOSE i \in S : \A j \in S : i <= j]
             IN  IF ~input.tensor \/ input.shape = <<>> THEN [ok |-> TRUE, batch |-> n]
                 ELSE LET dim == input.shape[1]
                      IN  IF dim > 0 /\ dim # n THEN [ok |-> FALSE, batch |-> n]
                          ELSE IF dim > 0 THEN [ok |-> TRUE, batch |-> dim]
                          ELSE [ok |-> TRUE, batch |-> n]

-----------------------------------------------------------------------------
(* Pooling Selector: what each embed does with the outputs of session.run.  *)

Some(v) == [some |-> TRUE, v |-> v]
None == [some |-> FALSE, v |-> Raw(<<>>)]

\* data.get(start..end) on the data of the output tensor `name` of shape `shape`.
Slice(name, shape, start, end) ==
    IF start <= end /\ end <= Product(shape)
    THEN Some(Raw([k \in 1..(end - start) |-> At(name, start + k - 1)]))
    ELSE None

\* A loop that returns the rows before the first failing one.
CollectRowsPartial(opts, msg) ==
    LET bad == {i \in 1..Len(opts) : ~opts[i].some}
        stop == IF bad = {} THEN Len(opts) + 1 ELSE CHOOSE i \in bad : \A j \in bad : i <= j
    IN  Ok([i \in 1..(stop - 1) |-> opts[i].v])

\* `for i in 0..batch { let slice = ...ok_or(msg)?; results.push(..) } Ok(results)`:
\* the first row without a slice returns Err and drops the rows pushed so far.
CollectRows(opts, msg) ==
    IF \E i \in 1..Len(opts) : ~opts[i].some THEN Err(msg)
    ELSE Ok([i \in 1..Len(opts) |-> opts[i].v])

\* normalize(slice) for the slice data.get(start..end) found, if any.
NormalizedSlice(name, shape, start, end) ==
    LET s == Slice(name, shape, start, end)
    IN  IF s.some THEN Some(normalize(s.v)) ELSE None

Picked(name, shape) == [ok |-> TRUE, name |-> name, shape |-> shape, err |-> ""]
NotPicked(m) == [ok |-> FALSE, name |-> "", shape |-> <<>>, err |-> m]

\* t.try_extract_tensor::<f32>()
Extract(outputs, name) ==
    IF outputs[name].ty = "Float32" THEN Picked(name, outputs[name].shape)
    ELSE NotPicked("Cannot extract f32 from tensor")

\* The key lists of the three pick_embedding_tensor functions.
BgeKeys == <<"sentence_embedding", "pooled_output", "pooler_output", "embedding">>
MiniLmKeys == <<"sentence_embedding", "embedding", "pooled_output", "pooler_output">>
Qwen3Keys == <<"sentence_embedding", "pooled_output", "embedding">>

KeysOf(f) == CASE f = "BGE" -> BgeKeys [] f = "MiniLM" -> MiniLmKeys [] f = "Qwen3" -> Qwen3Keys

\* A pick that takes the last key present instead of the first.
pick_last_key_present(keys, outputs) ==
    LET present == {i \in 1..Len(keys) : keys[i] \in DOMAIN outputs}
    IN  IF present # {}
        THEN Extract(outputs, keys[CHOOSE i \in present : \A j \in present : j <= i])
        ELSE IF "last_hidden_state" \in DOMAIN outputs
        THEN Extract(outputs, "last_hidden_state")
        ELSE NotPicked("No embedding tensor found in outputs")

\* A pick that takes last_hidden_state whenever it is present.
pick_last_hidden_state_first(keys, outputs) ==
    LET present == {i \in 1..Len(keys) : keys[i] \in DOMAIN outputs}
    IN  IF "last_hidden_state" \in DOMAIN outputs
        THEN Extract(outputs, "last_hidden_state")
        ELSE IF present # {}
        THEN Extract(outputs, keys[CHOOSE i \in present : \A j \in present : i <= j])
        ELSE NotPicked("No embedding tensor found in outputs")

\* fn pick_embedding_tensor: the first key present, else last_hidden_state, else Err.
pick_embedding_tensor(keys, outputs) ==
    LET present == {i \in 1..Len(keys) : keys[i] \in DOMAIN outputs}
    IN  IF present # {}
        THEN Extract(outputs, keys[CHOOSE i \in present : \A j \in present : i <= j])
        ELSE IF "last_hidden_state" \in DOMAIN outputs
        THEN Extract(outputs, "last_hidden_state")
        ELSE NotPicked("No embedding tensor found in outputs")

\* A rank-2 arm that never compares shape[0] with the batch.
PooledRowsUnchecked(p, batch) ==
    LET hidden == p.shape[2]
    IN  CollectRows([i \in 1..batch |->
                       NormalizedSlice(p.name, p.shape, (i - 1) * hidden, i * hidden)],
                    "Invalid output slice")

\* The rank-2 arm shared by bge.rs, minilm.rs and qwen3.rs: rows of shape[1] elements.
PooledRows(p, batch) ==
    LET hidden == p.shape[2]
    IN  IF p.shape[1] # batch THEN Err("Batch size mismatch in outputs")
        ELSE CollectRows([i \in 1..batch |->
                            NormalizedSlice(p.name, p.shape, (i - 1) * hidden, i * hidden)],
                         "Invalid output slice")

\* The mean-pooling loop of minilm.rs and jina_v3.rs over a [batch, seq, hidden] tensor.
MeanRows(p, batch, masks) ==
    LET seq_len == p.shape[2]
        hidden_dim == p.shape[3]
        Pooled(i, slice) ==
            normalize(mean_pooling_ndarray(slice.num, seq_len, hidden_dim,
                                           fit_mask(masks[i], seq_len)))
    IN  IF p.shape[1] # batch THEN Err("Batch size mismatch in outputs")
        ELSE CollectRows([i \in 1..batch |->
                            LET s == Slice(p.name, p.shape, (i - 1) * seq_len * hidden_dim,
                                           i * seq_len * hidden_dim)
                            IN  IF s.some THEN Some(Pooled(i, s.v)) ELSE None],
                         "Invalid output slice")

\* bge.rs embed after session.run
BgePool(batch, outputs) ==
    LET p == pick_embedding_tensor(BgeKeys, outputs)
    IN  IF ~p.ok THEN Err(p.err)
        ELSE IF Len(p.shape) = 2 THEN PooledRows(p, batch)
        ELSE IF Len(p.shape) # 3 THEN Err("Unexpected output shape")
        ELSE LET seq_len == p.shape[2]
                 hidden_dim == p.shape[3]
                 cls_index == 0
             IN  IF p.shape[1] # batch THEN Err("Batch size mismatch in outputs")
                 ELSE CollectRows([i \in 1..batch |->
                        NormalizedSlice(p.name, p.shape, ((i - 1) * seq_len + cls_index) * hidden_dim,
                                        ((i - 1) * seq_len + cls_index) * hidden_dim + hidden_dim)],
                        "Invalid CLS slice")

\* minilm.rs embed after session.run
MiniLmPool(batch, masks, outputs) ==
    IF "last_hidden_state" \in DOMAIN outputs
    THEN LET p == Extract(outputs, "last_hidden_state")
         IN  IF ~p.ok THEN Err(p.err)
             ELSE IF Len(p.shape) # 3 THEN Err("Unexpected output shape")
             ELSE MeanRows(p, batch, masks)
    ELSE LET p == pick_embedding_tensor(MiniLmKeys, outputs)
         IN  IF ~p.ok THEN Err(p.err)
             ELSE IF Len(p.shape) # 2 THEN Err("Unexpected output shape")
             ELSE PooledRows(p, batch)

\* jina_v3.rs embed after session.run: extracted_shape[0..2] are indexed unchecked.
JinaPool(batch, masks, outputs) ==
    IF "last_hidden_state" \notin DOMAIN outputs THEN Err("Missing last_hidden_state")
    ELSE LET p == Extract(outputs, "last_hidden_state")
         IN  IF ~p.ok THEN Err(p.err)
             ELSE IF Len(p.shape) < 3 THEN Panic("index out of bounds")
             ELSE MeanRows(p, batch, masks)

\* gemma.rs embed after session.run: out_shape[0] is indexed unchecked and rows are
\* HIDDEN_DIM long whatever the shape.
GemmaPool(batch, outputs) ==
    IF "sentence_embedding" \notin DOMAIN outputs THEN Err("Missing sentence_embedding")
    ELSE LET p == Extract(outputs, "sentence_embedding")
         IN  IF ~p.ok THEN Err(p.err)
             ELSE IF Len(p.shape) < 1 THEN Panic("index out of bounds")
             ELSE IF p.shape[1] # batch THEN Err("Batch size mismatch in outputs")
             ELSE CollectRows([i \in 1..batch |->
                                 Slice(p.name, p.shape, (i - 1) * HIDDEN_DIM, i * HIDDEN_DIM)],
                              "Invalid output slice")

\* mask.iter().rposition(|&m| m == 1).unwrap_or(seq_len.saturating_sub(1))
\* A last-token index that takes the first position whose mask entry is 1.
FirstIndex(mask, seq_len) ==
    LET set == {j \in 1..Len(mask) : mask[j] = 1}
    IN  IF set # {} THEN (CHOOSE j \in set : \A k \in set : j <= k) - 1
        ELSE IF seq_len > 0 THEN seq_len - 1 ELSE 0

\* mask.iter().rposition(|&m| m == 1).unwrap_or(seq_len.saturating_sub(1))
LastIndex(mask, seq_len) ==
    LET set == {j \in 1..Len(mask) : mask[j] = 1}
    IN  IF set # {} THEN (CHOOSE j \in set : \A k \in set : k <= j) - 1
        ELSE IF seq_len > 0 THEN seq_len - 1 ELSE 0

\* qwen3.rs embed after session.run: any rank other than 2 takes the last-token arm,
\* which indexes shape[0..2] unchecked.
Qwen3Pool(batch, masks, outputs) ==
    LET p == pick_embedding_tensor(Qwen3Keys, outputs)
    IN  IF ~p.ok THEN Err(p.err)
        ELSE IF Len(p.shape) = 2 THEN PooledRows(p, batch)
        ELSE IF Len(p.shape) < 3 THEN Panic("index out of bounds")
        ELSE LET seq_len == p.shape[2]
                 hidden_dim == p.shape[3]
             IN  IF p.shape[1] # batch THEN Err("Batch size mismatch in outputs")
                 ELSE CollectRows([i \in 1..batch |->
                        LET last_index == LastIndex(fit_mask(masks[i], seq_len), seq_len)
                            start == ((i - 1) * seq_len + last_index) * hidden_dim
                        IN  NormalizedSlice(p.name, p.shape, start, start + hidden_dim)],
                        "Invalid last token slice")

-----------------------------------------------------------------------------
(* embed, between encode_batch returning and session.run being called.      *)

Return(result) == [next |-> "done", result |-> result, batch |-> 0, inputs |-> <<>>]
CallRun(batch, inputs) == [next |-> "run", result |-> NoResult, batch |-> batch, inputs |-> inputs]

\* An early return that forgets the rows.
EmptyRowsNone(batch) == Ok(<<>>)

\* vec![Vec::new(); batch]
EmptyRows(batch) == Ok(Repeat(Raw(<<>>), batch))

\* bge.rs, minilm.rs, gemma.rs, jina_v3.rs: batch, max_len, padding, ort::inputs!
PlainAfterEncode(inst, encodings, task_id) ==
    LET batch == Len(encodings)
        b == BuildBatch(encodings, inst.padding)
    IN  IF b.max_len = 0 THEN Return(EmptyRows(batch))
        ELSE CallRun(batch,
                     CASE inst.family = "Gemma"  -> GemmaInputs(batch, b)
                       [] inst.family = "JinaV3" -> JinaInputs(batch, b, task_id)
                       [] OTHER                  -> BertInputs(inst.declared, batch, b))

\* A synthesizer loop that skips the inputs it cannot build.
Qwen3AfterEncodeLenient(inst, encodings) ==
    LET batch == Len(encodings)
        b == BuildBatch(encodings, inst.padding)
        built == [i \in 1..Len(inst.declared) |-> SynthesizeInput(inst.declared[i], batch, b)]
        kept == {i \in 1..Len(built) : built[i].ok}
        RECURSIVE Keep(_)
        Keep(i) == IF i > Len(built) THEN <<>>
                   ELSE (IF i \in kept THEN <<built[i].tensor>> ELSE <<>>) \o Keep(i + 1)
    IN  IF b.max_len = 0 THEN Return(EmptyRows(batch)) ELSE CallRun(batch, Keep(1))

\* qwen3.rs embed: declared batch check, max_len, padding, the synthesizer loop.
Qwen3AfterEncode(inst, encodings) ==
    LET checked == Qwen3Batch(inst.declared, Len(encodings))
        batch == checked.batch
        b == BuildBatch(encodings, inst.padding)
        synth == Qwen3Inputs(inst.declared, batch, b)
    IN  IF ~checked.ok THEN Return(Err("Batch size mismatch for input_ids"))
        ELSE IF b.max_len = 0 THEN Return(EmptyRows(batch))
        ELSE IF ~synth.ok THEN Return(Err(synth.err))
        ELSE CallRun(batch, synth.inputs)

AfterEncode(inst, encodings, task_id) ==
    IF inst.family = "Qwen3" THEN Qwen3AfterEncode(inst, encodings)
    ELSE PlainAfterEncode(inst, encodings, task_id)

\* embed after session.run returned its outputs.
Pool(inst, batch, encodings, outs) ==
    LET masks == BuildBatch(encodings, inst.padding).masks
    IN  CASE inst.family = "BGE"    -> BgePool(batch, outs)
          [] inst.family = "MiniLM" -> MiniLmPool(batch, masks, outs)
          [] inst.family = "JinaV3" -> JinaPool(batch, masks, outs)
          [] inst.family = "Gemma"  -> GemmaPool(batch, outs)
          [] inst.family = "Qwen3"  -> Qwen3Pool(batch, masks, outs)

\* An embed that calls session.run again after a failed run.
OnRunErrorRetry(calls) ==
    IF calls < 2 THEN [next |-> "run", result |-> NoResult, calls |-> calls + 1]
    ELSE [next |-> "done", result |-> Err("session.run failed"), calls |-> calls]

\* `self.session.run(inputs)?`: the error is returned, nothing is called again.
OnRunError(calls) == [next |-> "done", result |-> Err("session.run failed"), calls |-> calls]

-----------------------------------------------------------------------------
(* The state machine.                                                       *)

-----------------------------------------------------------------------------
(* The tokenizer registry (tokenizer.rs): handles, the store, the callers.    *)

\* The greatest handle the counter hands out in the model.
MaxLoads == 3

\* The u64 handles of the model: 0, which next_id never returns, the handles of the
\* loads, and one beyond them.
Handles == 0..(MaxLoads + 1)

\* The callers that may be inside load_tokenizer_* at the same time.
Threads == {"t1", "t2"}

\* The special_tokens arguments: Vec<String>.
TokenLists == {<<>>, <<"[X]">>}

\* A Tokenizer: the JSON it was built from and the special tokens added to it.
TokenizerOf(json, special) == [json |-> json, special |-> special]
NoTokenizer == TokenizerOf("", {})

\* A caller outside load_tokenizer_from_json_inner.
Idle == [pc |-> "idle", id |-> 0, tokenizer |-> NoTokenizer]

\* Result<_, String> of the registry functions.
OkOf(v) == [ok |-> TRUE, val |-> v, err |-> ""]
ErrOf(m) == [ok |-> FALSE, val |-> 0, err |-> m]

\* A counter whose fetch_add forgets to add.
next_id_stale(c) == [id |-> c, counter |-> c]

\* fn next_id: COUNTER.fetch_add(1, Relaxed) returns the value before the addition.
next_id(c) == [id |-> c, counter |-> c + 1]

\* An insertion that drops the other entries.
StoreInsertEvicting(s, id, tokenizer) == [h \in {id} |-> tokenizer]

\* guard.insert(id, tokenizer)
StoreInsert(s, id, tokenizer) ==
    [h \in DOMAIN s \cup {id} |-> IF h = id THEN tokenizer ELSE s[h]]

\* fn add_special_tokens_internal: the tokenizer afterwards and the number of tokens
\* it reports as added.
add_special_tokens_internal(tokenizer, tokens) ==
    LET new == {tokens[i] : i \in 1..Len(tokens)} \ tokenizer.special
    IN  IF tokens = <<>> THEN [tokenizer |-> tokenizer, n |-> 0]
        ELSE [tokenizer |-> [tokenizer EXCEPT !.special = @ \cup new], n |-> Cardinality(new)]

\* fn with_tokenizer, fn with_tokenizer_mut: guard.get(&id).ok_or("Unknown tokenizer id")?
\* and then the closure, whose result is r.
with_tokenizer(s, id, r) == IF id \in DOMAIN s THEN r ELSE ErrOf("Unknown tokenizer id")

-----------------------------------------------------------------------------
(* cosine_distance (utils.rs) in f32 arithmetic.                              *)

\* The f32 scalars of cosine_distance: a finite num * 10^exp10, an infinity with the sign
\* of num, or NaN.
Fin(n, e) == [kind |-> "fin", num |-> n, exp10 |-> e]
Infinite(sign) == [kind |-> "inf", num |-> sign, exp10 |-> 0]
NotANumber == [kind |-> "nan", num |-> 0, exp10 |-> 0]

\* The f32 product of the entries x * 10^e1 and y * 10^e2. A product above f32::MAX
\* (3.4e38) is an infinity, one below the least subnormal (1.4e-45) is 0; the scales of
\* the model keep away from both borders.
TermF32(x, y, e) ==
    IF x = NaN \/ y = NaN THEN NotANumber
    ELSE IF x * y = 0 THEN Fin(0, 0)
    ELSE IF e > 38 THEN Infinite(IF x * y > 0 THEN 1 ELSE -1)
    ELSE IF e < -46 THEN Fin(0, 0)
    ELSE Fin(x * y, e)

\* The f32 sum s + t of two scalars of the same scale.
AddF32(s, t) ==
    IF s.kind = "nan" \/ t.kind = "nan" THEN NotANumber
    ELSE IF s.kind = "inf" /\ t.kind = "inf"
    THEN (IF s.num = t.num THEN s ELSE NotANumber)
    ELSE IF s.kind = "inf" THEN s
    ELSE IF t.kind = "inf" THEN t
    ELSE IF s.num + t.num = 0 THEN Fin(0, 0)
    ELSE Fin(s.num + t.num, IF s.num = 0 THEN t.exp10 ELSE s.exp10)

\* `for i in 0..a.len() { acc += x[i] * y[i] }` up to entry n.
RECURSIVE Accumulate(_, _, _)
Accumulate(x, y, n) ==
    IF n = 0 THEN Fin(0, 0)
    ELSE AddF32(Accumulate(x, y, n - 1), TermF32(x.num[n], y.num[n], x.exp10 + y.exp10))

\* `== 0.0`
IsZeroF32(s) == s.kind = "fin" /\ s.num = 0

\* A similarity num / sqrt(den2), off by `rounding` units in the last place.
Sim(n, d2, rounding) == [kind |-> "fin", num |-> n, den2 |-> d2, rounding |-> rounding]
SimNaN == [kind |-> "nan", num |-> 0, den2 |-> 1, rounding |-> 0]

\* s > 1.0 and s < -1.0
SimAbove(s) ==
    s.kind = "fin" /\ s.num > 0
    /\ (s.num * s.num > s.den2 \/ (s.num * s.num = s.den2 /\ s.rounding > 0))
SimBelow(s) ==
    s.kind = "fin" /\ s.num < 0
    /\ (s.num * s.num > s.den2 \/ (s.num * s.num = s.den2 /\ s.rounding < 0))

\* dot_product / (norm_sq_a.sqrt() * norm_sq_b.sqrt()) for norms that are not 0.0; the
\* square roots, their product and the quotient are rounded.
Similarity(dot, na, nb, rounding) ==
    IF dot.kind = "nan" \/ na.kind = "nan" \/ nb.kind = "nan" THEN SimNaN
    ELSE IF na.kind = "inf" \/ nb.kind = "inf"
    THEN (IF dot.kind = "inf" THEN SimNaN ELSE Sim(0, 1, 0))
    ELSE IF dot.kind = "inf" THEN Sim(2 * dot.num, 1, 0)
    ELSE IF dot.num = 0 THEN Sim(0, 1, 0)
    ELSE Sim(dot.num, na.num * nb.num, rounding)

\* f32::clamp(-1.0, 1.0): NaN stays NaN.
ClampUnit(s) ==
    IF SimAbove(s) THEN Sim(1, 1, 0) ELSE IF SimBelow(s) THEN Sim(-1, 1, 0) ELSE s

\* A cosine_distance that subtracts the similarity as computed.
cosine_distance_unclamped(a, b, rounding) ==
    IF Len(a.num) # Len(b.num) THEN ErrOf("Vectors must have the same length")
    ELSE LET n   == Len(a.num)
             dot == Accumulate(a, b, n)
             na  == Accumulate(a, a, n)
             nb  == Accumulate(b, b, n)
         IN  IF IsZeroF32(na) \/ IsZeroF32(nb)
             THEN ErrOf("Cannot compute cosine distance on zero vectors")
             ELSE OkOf([one_minus |-> Similarity(dot, na, nb, rounding)])

\* fn cosine_distance; Ok holds 1.0 - similarity as the similarity subtracted.
cosine_distance(a, b, rounding) ==
    IF Len(a.num) # Len(b.num) THEN ErrOf("Vectors must have the same length")
    ELSE LET n   == Len(a.num)
             dot == Accumulate(a, b, n)
             na  == Accumulate(a, a, n)
             nb  == Accumulate(b, b, n)
         IN  IF IsZeroF32(na) \/ IsZeroF32(nb)
             THEN ErrOf("Cannot compute cosine distance on zero vectors")
             ELSE OkOf([one_minus |-> ClampUnit(Similarity(dot, na, nb, rounding))])

VARIABLES
    inst,         \* the embedder: family, declared inputs, tokenizer padding
    pc,           \* "idle", "encode" (in encode_batch), "run" (in session.run), "done"
    texts,        \* the texts of the current embed call
    task_id,      \* JinaV3's task_id argument (0 for the other families)
    encodings,    \* what encode_batch returned
    batch,        \* the batch size embed computed
    inputs,       \* the tensors handed to session.run
    outputs,      \* what session.run returned
    result,       \* what embed returned
    stage,        \* how far the call got: "called", "encoded" (encode_batch returned
                  \* Ok), "ran" (session.run returned Ok)
    encodeCalls,  \* calls of tokenizer.encode_batch in the current embed call
    runCalls,     \* calls of session.run in the current embed call
    call,         \* the last call of a free function: its name and arguments
    ret,          \* what that call returned (a String as [str |-> s])
    COUNTER,      \* tokenizer.rs next_id: the AtomicU64 behind the handles
    STORE,        \* tokenizer.rs store(): the HashMap<u64, Tokenizer> under the RwLock
    threads,      \* the callers of load_tokenizer_*: where each is, its id and tokenizer
    returned      \* how many loads have returned each handle

embedVars == <<inst, pc, texts, task_id, encodings, batch, inputs, outputs, result, stage,
               encodeCalls, runCalls>>

utilVars == <<call, ret>>

registryVars == <<COUNTER, STORE, threads, returned>>

vars == <<inst, pc, texts, task_id, encodings, batch, inputs, outputs, result, stage,
          encodeCalls, runCalls, call, ret, COUNTER, STORE, threads, returned>>

\* No free function has been called.
NoCall == [fn |-> "none", args |-> <<>>]

NoOutputs == <<>>

Init ==
    /\ inst \in Instances
    /\ pc = "idle"
    /\ texts = <<>>
    /\ task_id = 0
    /\ encodings = <<>>
    /\ batch = 0
    /\ inputs = <<>>
    /\ outputs = NoOutputs
    /\ result = NoResult
    /\ stage = "called"
    /\ encodeCalls = 0
    /\ runCalls = 0
    /\ call = NoCall
    /\ ret = NoCall
    /\ COUNTER = 1
    /\ STORE = <<>>
    /\ threads = [t \in Threads |-> Idle]
    /\ returned = [h \in Handles |-> 0]

\* An embed without the early return for the empty list.
EmbedCallNoEarlyReturn(t, tid) ==
    /\ pc \in {"idle", "done"}
    /\ texts' = t
    /\ task_id' = tid
    /\ encodings' = <<>>
    /\ batch' = 0
    /\ inputs' = <<>>
    /\ outputs' = NoOutputs
    /\ runCalls' = 0
    /\ stage' = "called"
    /\ result' = NoResult
    /\ pc' = "encode"
    /\ encodeCalls' = 1
    /\ UNCHANGED <<registryVars, inst, call, ret>>

\* embed(texts): the empty list returns at once, any other is handed to encode_batch.
EmbedCall(t, tid) ==
    /\ pc \in {"idle", "done"}
    /\ texts' = t
    /\ task_id' = tid
    /\ encodings' = <<>>
    /\ batch' = 0
    /\ inputs' = <<>>
    /\ outputs' = NoOutputs
    /\ runCalls' = 0
    /\ stage' = "called"
    /\ IF t = <<>>
       THEN /\ result' = Ok(<<>>)
            /\ pc' = "done"
            /\ encodeCalls' = 0
       ELSE /\ result' = NoResult
            /\ pc' = "encode"
            /\ encodeCalls' = 1
    /\ UNCHANGED <<registryVars, inst, call, ret>>

\* encode_batch returns Err.
EncodeFails ==
    /\ pc = "encode"
    /\ result' = Err("encode_batch failed")
    /\ pc' = "done"
    /\ UNCHANGED <<registryVars, inst, texts, task_id, encodings, batch, inputs, outputs, stage,
                   encodeCalls, runCalls, call, ret>>

\* encode_batch returns the encodings; embed runs on to session.run or to its return.
EncodeReturns(encs) ==
    /\ pc = "encode"
    /\ LET step == AfterEncode(inst, encs, task_id)
       IN  /\ encodings' = encs
           /\ pc' = step.next
           /\ result' = step.result
           /\ batch' = step.batch
           /\ inputs' = step.inputs
           /\ runCalls' = IF step.next = "run" THEN runCalls + 1 ELSE runCalls
    /\ stage' = "encoded"
    /\ UNCHANGED <<registryVars, inst, texts, task_id, outputs, encodeCalls, call, ret>>

\* session.run returns Err.
RunFails ==
    /\ pc = "run"
    /\ LET step == OnRunError(runCalls)
       IN  /\ pc' = step.next
           /\ result' = step.result
           /\ runCalls' = step.calls
    /\ UNCHANGED <<registryVars, inst, texts, task_id, encodings, batch, inputs, outputs, stage,
                   encodeCalls, call, ret>>

\* session.run returns its outputs; embed pools them and returns.
RunReturns(outs) ==
    /\ pc = "run"
    /\ outputs' = outs
    /\ result' = Pool(inst, batch, encodings, outs)
    /\ pc' = "done"
    /\ stage' = "ran"
    /\ UNCHANGED <<registryVars, inst, texts, task_id, encodings, batch, inputs, encodeCalls, runCalls,
                   call, ret>>

TextLists == UNION {[1..n -> Texts] : n \in 0..MaxBatch}

Next ==
    \/ /\ pc \in {"idle", "done"}
       /\ \E t \in TextLists :
            \E tid \in (IF inst.family = "JinaV3" THEN TaskIds ELSE {0}) : EmbedCall(t, tid)
    \/ EncodeFails
    \/ /\ pc = "encode"
       /\ \E encs \in EncodingsFor(Len(texts)) : EncodeReturns(encs)
    \/ RunFails
    \/ /\ pc = "run"
       /\ \E outs \in OutputsFor(inst.family) : RunReturns(outs)

Spec == Init /\ [][Next]_vars

-----------------------------------------------------------------------------
(* The free functions (utils.rs, format_query / format_document), each called  *)
(* on its own with arguments drawn from the sets below.                        *)

\* Longest vector handed to normalize.
MaxVecLen == 3

VecValues == {-4, -1, 0, 1, 3}

\* Decimal scales of the vectors: units, 1e-9, 1e-10 and 1e20.
VecScales == {0, 9, 10, -20}

\* The &[f32] arguments of normalize.
Vectors ==
    { [num |-> v, den2 |-> d, exp10 |-> e] :
        v \in UNION {[1..n -> VecValues] : n \in 0..MaxVecLen}, d \in {1, 2}, e \in VecScales }

\* bge.rs: PREFIX_QUERY, PREFIX_DOCUMENT
Bge_PREFIX_QUERY == "Represent this sentence for searching relevant passages: "
Bge_PREFIX_DOCUMENT == ""

\* gemma.rs: PREFIX_QUERY, PREFIX_DOCUMENT
Gemma_PREFIX_QUERY == "task: search result | query: "
Gemma_PREFIX_DOCUMENT == "title: none | text: "

\* qwen3.rs: QWEN3_TASK
QWEN3_TASK == "Given a web search query, retrieve relevant passages that answer the query"

\* A format_query that appends the prefix instead of prepending it.
format_query_appending(f, query) ==
    CASE f = "BGE"   -> query \o Bge_PREFIX_QUERY
      [] f = "Gemma" -> query \o Gemma_PREFIX_QUERY
      [] f = "Qwen3" -> query \o "Instruct: " \o QWEN3_TASK \o "\nQuery:"
      [] OTHER       -> query

\* format_query of the five embedders: format!("{PREFIX_QUERY}{query}") in bge.rs and
\* gemma.rs, format!("Instruct: {}\nQuery:{}", QWEN3_TASK, query) in qwen3.rs, the
\* query itself in minilm.rs and jina_v3.rs.
format_query(f, query) ==
    CASE f = "BGE"   -> Bge_PREFIX_QUERY \o query
      [] f = "Gemma" -> Gemma_PREFIX_QUERY \o query
      [] f = "Qwen3" -> "Instruct: " \o QWEN3_TASK \o "\nQuery:" \o query
      [] OTHER       -> query

\* format_document of the five embedders: bge.rs returns the text when its prefix is
\* empty, gemma.rs prepends its prefix, the other three return the text.
format_document(f, text) ==
    CASE f = "BGE"   -> IF Bge_PREFIX_DOCUMENT = "" THEN text ELSE Bge_PREFIX_DOCUMENT \o text
      [] f = "Gemma" -> Gemma_PREFIX_DOCUMENT \o text
      [] OTHER       -> text

\* The String arguments of the format functions: empty, plain, with a line break, with
\* braces, and texts that hold a prefix or a part of one.
FormatTexts ==
    {"", "hello", "a\nb", "{query}", "Query:", "title: none | text: x",
     "Represent this sentence for searching relevant passages: "}

\* The families with a pick_embedding_tensor of their own.
PickFamilies == {"BGE", "MiniLM", "Qwen3"}

\* The tensor an engine returns under a name: a shape of its own, f32 or not.
PickTensors(name) ==
    {[shape |-> <<1, NameSeed(name)>>, ty |-> ty] : ty \in {"Float32", "Float16"}}

\* SessionOutputs holding any of the five names.
PickOutputs ==
    UNION { {outs \in [N -> UNION {PickTensors(OutNames[i]) : i \in 1..Len(OutNames)}] :
                \A n \in N : outs[n] \in PickTensors(n)} :
            N \in SUBSET {OutNames[i] : i \in 1..Len(OutNames)} }

\* Longest sequence handed to the mean pooling functions.
MaxSeqLen == 2

HiddenSizes == {0, 1, 2}

\* Entries of the matrices: two finite values and one that is not finite.
F32Values == {-1, 2, NaN}

\* The Array2<f32> arguments of mean_pooling_ndarray: dim() and the row-major data.
Matrices ==
    UNION { UNION { { [seq_len |-> s, hidden_size |-> h, data |-> d] :
                        d \in [1..(s * h) -> F32Values] } :
                    h \in HiddenSizes } :
            s \in 0..MaxSeqLen }

\* The &[u32] attention masks: shorter than, as long as and longer than the sequence.
Masks == UNION {[1..n -> {0, 1, 2}] : n \in 0..MaxSeqLen}

\* The Vec<Vec<f32>> arguments of mean_pooling_vec: rows of any lengths.
VecRows == UNION {[1..n -> {-1, 2}] : n \in HiddenSizes}
RowLists == UNION {[1..n -> VecRows] : n \in 0..MaxSeqLen}

\* Highest rank of the declared shapes handed to the shape resolvers.
MaxRank == 3

\* Declared extents: two dynamic ones, zero and a fixed one.
DeclaredExtents == {-2, -1, 0, 3}

\* The &ValueType arguments: tensors of every declared shape up to MaxRank, and an
\* input that is not a tensor.
DeclaredTypes ==
    { TensorInput("x", "Int64", s) :
        s \in UNION {[1..r -> DeclaredExtents] : r \in 0..MaxRank} }
    \cup {OtherInput("x")}

\* The fallback shapes of the roles: [max_len], [batch, max_len], [1; rank].
Fallbacks == UNION {[1..r -> {1, 2}] : r \in 1..MaxRank}

\* The declared element kinds: the thirteen the builders match, and String.
ElementKinds == SupportedTypes \cup {"String"}

\* The &ValueType arguments of the tensor builders: a tensor of each element kind, and
\* an input that is not a tensor.
BuilderTypes == {TensorInput("x", ty, <<-1, -1>>) : ty \in ElementKinds} \cup {OtherInput("x")}

\* The resolved shapes handed to the builders.
BuilderShapes == UNION {[1..r -> {0, 1, 2}] : r \in 0..2}

\* The i64 values handed to tensor_from_i64: in and out of the range of the narrower
\* integer types and of the significands of the floating types.
I64Values == {-129, -1, 0, 1, 2, 257, 2049, 70000}

I64Data == UNION {[1..n -> I64Values] : n \in 0..MaxSeqLen}

\* Decimal scales of the vectors of cosine_distance: units, 1e20 (squares above
\* f32::MAX) and 1e-30 (squares below the least subnormal).
CosScales == {0, 20, -30}

\* The Vec<f32> arguments of cosine_distance: entries -1, 0, 2 times the scale, and
\* two vectors with a NaN entry.
CosVectors ==
    { [num |-> v, exp10 |-> e] :
        v \in UNION {[1..n -> {-1, 0, 2}] : n \in 0..MaxSeqLen}, e \in CosScales }
    \cup { [num |-> <<NaN>>, exp10 |-> 0], [num |-> <<NaN, 0>>, exp10 |-> 0] }

\* The free functions keep no state between calls: each behaviour makes one call.
UtilInit ==
    /\ Init
    /\ inst = Instance("BGE", IdsAndMask, NoPadding)

\* normalize(embedding)
CallNormalize(v) ==
    /\ call = NoCall
    /\ call' = [fn |-> "normalize", args |-> <<v>>]
    /\ ret' = normalize(v)
    /\ UNCHANGED <<embedVars, registryVars>>

\* <Family>Embedder::format_query(query)
CallFormatQuery(f, query) ==
    /\ call = NoCall
    /\ call' = [fn |-> "format_query", args |-> <<f, query>>]
    /\ ret' = [str |-> format_query(f, query)]
    /\ UNCHANGED <<embedVars, registryVars>>

\* <Family>Embedder::format_document(text)
CallFormatDocument(f, text) ==
    /\ call = NoCall
    /\ call' = [fn |-> "format_document", args |-> <<f, text>>]
    /\ ret' = [str |-> format_document(f, text)]
    /\ UNCHANGED <<embedVars, registryVars>>

\* pick_embedding_tensor(&outputs) of bge.rs, minilm.rs or qwen3.rs
CallPickEmbeddingTensor(f, outs) ==
    /\ call = NoCall
    /\ call' = [fn |-> "pick_embedding_tensor", args |-> <<f, outs>>]
    /\ ret' = pick_embedding_tensor(KeysOf(f), outs)
    /\ UNCHANGED <<embedVars, registryVars>>

\* mean_pooling_ndarray(&embeddings, &attention_mask)
CallMeanPooling(m, mask) ==
    /\ call = NoCall
    /\ call' = [fn |-> "mean_pooling_ndarray", args |-> <<m, mask>>]
    /\ ret' = mean_pooling_ndarray(m.data, m.seq_len, m.hidden_size, mask)
    /\ UNCHANGED <<embedVars, registryVars>>

\* mean_pooling_vec(embeddings, attention_mask)
CallMeanPoolingVec(rows, mask) ==
    /\ call = NoCall
    /\ call' = [fn |-> "mean_pooling_vec", args |-> <<rows, mask>>]
    /\ ret' = mean_pooling_vec(rows, mask)
    /\ UNCHANGED <<embedVars, registryVars>>

\* resolve_shape_with_fallback(dtype, fallback)
CallResolveShape(dtype, fallback) ==
    /\ call = NoCall
    /\ call' = [fn |-> "resolve_shape_with_fallback", args |-> <<dtype, fallback>>]
    /\ ret' = resolve_shape_with_fallback(dtype, fallback)
    /\ UNCHANGED <<embedVars, registryVars>>

\* The past_key_values arm of embed's loop for one declared input.
CallPastKvArm(dtype, n) ==
    /\ call = NoCall
    /\ call' = [fn |-> "resolve_past_kv_shape", args |-> <<dtype, n>>]
    /\ ret' = PastKvArm(dtype, n)
    /\ UNCHANGED <<embedVars, registryVars>>

\* tensor_from_i64(dtype, shape, data)
CallTensorFromI64(dtype, shape, data) ==
    /\ call = NoCall
    /\ call' = [fn |-> "tensor_from_i64", args |-> <<dtype, shape, data>>]
    /\ ret' = tensor_from_i64(dtype.name, dtype, shape, data)
    /\ UNCHANGED <<embedVars, registryVars>>

\* zeros_tensor(dtype, shape)
CallZerosTensor(dtype, shape) ==
    /\ call = NoCall
    /\ call' = [fn |-> "zeros_tensor", args |-> <<dtype, shape>>]
    /\ ret' = zeros_tensor(dtype.name, dtype, shape)
    /\ UNCHANGED <<embedVars, registryVars>>

\* cosine_distance(a, b); rounding is what the rounded square roots and quotient add.
CallCosineDistance(a, b, rounding) ==
    /\ call = NoCall
    /\ call' = [fn |-> "cosine_distance", args |-> <<a, b>>]
    /\ ret' = cosine_distance(a, b, rounding)
    /\ UNCHANGED <<embedVars, registryVars>>

UtilNext ==
    \/ call = NoCall /\ \E v \in Vectors : CallNormalize(v)
    \/ call = NoCall /\ \E f \in Families, s \in FormatTexts : CallFormatQuery(f, s)
    \/ call = NoCall /\ \E f \in Families, s \in FormatTexts : CallFormatDocument(f, s)
    \/ call = NoCall /\ \E f \in PickFamilies, outs \in PickOutputs : CallPickEmbeddingTensor(f, outs)
    \/ call = NoCall /\ \E m \in Matrices, mask \in Masks : CallMeanPooling(m, mask)
    \/ call = NoCall /\ \E rows \in RowLists, mask \in Masks : CallMeanPoolingVec(rows, mask)
    \/ call = NoCall /\ \E dtype \in DeclaredTypes, fb \in Fallbacks : CallResolveShape(dtype, fb)
    \/ call = NoCall /\ \E dtype \in DeclaredTypes, n \in 1..MaxBatch : CallPastKvArm(dtype, n)
    \/ call = NoCall /\ \E dtype \in BuilderTypes, shape \in BuilderShapes, data \in I64Data :
            CallTensorFromI64(dtype, shape, data)
    \/ call = NoCall /\ \E dtype \in BuilderTypes, shape \in BuilderShapes :
            CallZerosTensor(dtype, shape)
    \/ call = NoCall /\ \E a \in CosVectors, b \in CosVectors, rounding \in {-1, 0, 1} :
            CallCosineDistance(a, b, rounding)

UtilSpec == UtilInit /\ [][UtilNext]_vars

-----------------------------------------------------------------------------
(* The tokenizer registry: concurrent loads, and the calls that take a handle. *)

InLoad == {t \in Threads : threads[t].pc # "idle"}

\* load_tokenizer_from_json_inner up to the call of insert_tokenizer: Tokenizer::from_str
\* (parsed tells whether it succeeds) and the optional special tokens. The handles are
\* bounded by MaxLoads.
LoadBegin(t, parsed, special) ==
    /\ threads[t].pc = "idle"
    /\ COUNTER + Cardinality(InLoad) <= MaxLoads
    /\ IF parsed
       THEN /\ threads' = [threads EXCEPT ![t] =
                   [pc |-> "next_id", id |-> 0,
                    tokenizer |-> IF special.some
                                  THEN add_special_tokens_internal(TokenizerOf("json", {}),
                                                                   special.tokens).tokenizer
                                  ELSE TokenizerOf("json", {})]]
            /\ UNCHANGED <<call, ret>>
       ELSE /\ call' = [fn |-> "load_tokenizer_from_json", args |-> <<t>>]
            /\ ret' = ErrOf("Failed to load tokenizer")
            /\ UNCHANGED threads
    /\ UNCHANGED <<embedVars, COUNTER, STORE, returned>>

\* insert_tokenizer: let id = next_id();
LoadNextId(t) ==
    /\ threads[t].pc = "next_id"
    /\ COUNTER' = next_id(COUNTER).counter
    /\ threads' = [threads EXCEPT ![t].pc = "insert", ![t].id = next_id(COUNTER).id]
    /\ UNCHANGED <<embedVars, call, ret, STORE, returned>>

\* insert_tokenizer: the write lock, guard.insert(id, tokenizer), Ok(id).
LoadInsert(t) ==
    /\ threads[t].pc = "insert"
    /\ STORE' = StoreInsert(STORE, threads[t].id, threads[t].tokenizer)
    /\ returned' = [returned EXCEPT ![threads[t].id] = IF @ < 2 THEN @ + 1 ELSE @]
    /\ call' = [fn |-> "load_tokenizer_from_json", args |-> <<t>>]
    /\ ret' = OkOf(threads[t].id)
    /\ threads' = [threads EXCEPT ![t] = Idle]
    /\ UNCHANGED <<embedVars, COUNTER>>

\* A call through with_tokenizer: the read lock is held for the whole closure, r is what
\* the closure returns (the tokenizers library may fail).
Resolve(t, fn, id, r) ==
    /\ threads[t].pc = "idle"
    /\ call' = [fn |-> fn, args |-> <<id>>]
    /\ ret' = with_tokenizer(STORE, id, r)
    /\ UNCHANGED <<embedVars, COUNTER, STORE, threads, returned>>

encode(t, id, failed) ==
    Resolve(t, "encode", id, IF failed THEN ErrOf("Encode failed") ELSE OkOf(1))

encode_batch(t, id, failed) ==
    Resolve(t, "encode_batch", id, IF failed THEN ErrOf("Encode batch failed") ELSE OkOf(1))

decode(t, id, failed) ==
    Resolve(t, "decode", id, IF failed THEN ErrOf("Decode failed") ELSE OkOf(1))

decode_batch(t, id, failed) ==
    Resolve(t, "decode_batch", id, IF failed THEN ErrOf("Decode batch failed") ELSE OkOf(1))

\* add_special_tokens: with_tokenizer_mut under the write lock.
add_special_tokens(t, id, tokens) ==
    /\ threads[t].pc = "idle"
    /\ call' = [fn |-> "add_special_tokens", args |-> <<id>>]
    /\ IF id \in DOMAIN STORE
       THEN LET r == add_special_tokens_internal(STORE[id], tokens)
            IN  /\ STORE' = [STORE EXCEPT ![id] = r.tokenizer]
                /\ ret' = with_tokenizer(STORE, id, OkOf(r.n))
       ELSE /\ ret' = with_tokenizer(STORE, id, OkOf(0))
            /\ UNCHANGED STORE
    /\ UNCHANGED <<embedVars, COUNTER, threads, returned>>

\* Option<Vec<String>>
SpecialArgs == {[some |-> FALSE, tokens |-> <<>>]} \cup {[some |-> TRUE, tokens |-> l] : l \in TokenLists}

RegistryInit == UtilInit

RegistryNext ==
    \/ \E t \in Threads, parsed \in BOOLEAN, special \in SpecialArgs : LoadBegin(t, parsed, special)
    \/ \E t \in Threads : LoadNextId(t)
    \/ \E t \in Threads : LoadInsert(t)
    \/ \E t \in Threads, id \in Handles, failed \in BOOLEAN : encode(t, id, failed)
    \/ \E t \in Threads, id \in Handles, failed \in BOOLEAN : encode_batch(t, id, failed)
    \/ \E t \in Threads, id \in Handles, failed \in BOOLEAN : decode(t, id, failed)
    \/ \E t \in Threads, id \in Handles, failed \in BOOLEAN : decode_batch(t, id, failed)
    \/ \E t \in Threads, id \in Handles, tokens \in TokenLists : add_special_tokens(t, id, tokens)

RegistrySpec == RegistryInit /\ [][RegistryNext]_vars

-----------------------------------------------------------------------------
(* Properties.                                                              *)

Returned == pc = "done"
Rows == result.rows
RowLen(i) == Len(result.rows[i].num)
LHS == "last_hidden_state"

\* The output tensor the family's embed pools from.
Selected ==
    CASE inst.family = "BGE"    -> pick_embedding_tensor(BgeKeys, outputs)
      [] inst.family = "MiniLM" -> IF LHS \in DOMAIN outputs THEN Extract(outputs, LHS)
                                   ELSE pick_embedding_tensor(MiniLmKeys, outputs)
      [] inst.family = "JinaV3" -> IF LHS \in DOMAIN outputs THEN Extract(outputs, LHS)
                                   ELSE NotPicked("Missing last_hidden_state")
      [] inst.family = "Gemma"  -> IF "sentence_embedding" \in DOMAIN outputs
                                   THEN Extract(outputs, "sentence_embedding")
                                   ELSE NotPicked("Missing sentence_embedding")
      [] inst.family = "Qwen3"  -> pick_embedding_tensor(Qwen3Keys, outputs)

\* The ranks of the pooling paths a family has for the selected tensor: the pooled
\* rank-2 path, and the per-token rank-3 path (CLS, mean or last-valid-token).
PathRanks(p) ==
    CASE inst.family = "BGE"    -> {2, 3}
      [] inst.family = "MiniLM" -> IF p.name = LHS THEN {3} ELSE {2}
      [] inst.family = "JinaV3" -> {3}
      [] inst.family = "Gemma"  -> {2}
      [] inst.family = "Qwen3"  -> {2, 3}

\* C1: for every family and every non-empty list of texts, a successful embed returns
\* as many vectors as there are texts, whatever the engine returned.
C1_OneVectorPerText ==
    (Returned /\ texts # <<>> /\ result.kind = "ok") => Len(Rows) = Len(texts)

C1_Witness ==
    /\ Returned /\ stage = "ran" /\ result.kind = "ok"
    /\ Len(texts) = 2 /\ Len(Rows) = 2 /\ RowLen(2) > 0

\* C2: for every family, embed of the empty list returns Ok(empty list) and calls
\* neither encode_batch nor session.run.
C2_EmptyInEmptyOut ==
    (Returned /\ texts = <<>>) => (result = Ok(<<>>) /\ encodeCalls = 0 /\ runCalls = 0)

C2_Witness ==
    Returned /\ texts = <<>> /\ result = Ok(<<>>) /\ inst.family = "Qwen3"

\* The engine returned what the instance's model is built to return: tensors of rank
\* 2 or 3 whose last extent is the model's hidden width.
Conformant ==
    \A n \in DOMAIN outputs :
        LET shape == outputs[n].shape
        IN  Len(shape) \in {2, 3} /\ shape[Len(shape)] = inst.hidden

\* C3 as stated: every row of every successful embed of an instance has the model's
\* hidden width, whatever the texts.
C3_Original ==
    (Returned /\ result.kind = "ok" /\ Conformant) =>
        \A i \in 1..Len(Rows) : RowLen(i) = inst.hidden

AllEncodingsEmpty ==
    encodings # <<>> /\ \A i \in 1..Len(encodings) : encodings[i].ids = <<>>

MeanOverNoTokens ==
    /\ stage = "ran"
    /\ inst.family \in {"MiniLM", "JinaV3"}
    /\ Selected.ok /\ Len(Selected.shape) = 3 /\ Selected.shape[2] = 0

\* C3 amended: every row of a successful embed has the model's hidden width, except
\* that the rows are empty when every encoding of the call is empty, and when MiniLM
\* or JinaV3 mean-pool a per-token output whose sequence axis is 0.
C3_FixedHiddenUnlessEmpty ==
    (Returned /\ result.kind = "ok" /\ Conformant) =>
        \A i \in 1..Len(Rows) :
            RowLen(i) = IF AllEncodingsEmpty \/ MeanOverNoTokens THEN 0 ELSE inst.hidden

C3_Witness ==
    /\ Returned /\ stage = "ran" /\ result.kind = "ok" /\ Conformant
    /\ inst.family = "MiniLM" /\ Len(Rows) = 2
    /\ RowLen(1) = inst.hidden /\ RowLen(2) = inst.hidden

\* C4: on every pooling path of every family, an output tensor whose shape[0] differs
\* from the batch size makes embed return the batch-size-mismatch error and no vectors.
C4_BatchMismatchIsError ==
    (Returned /\ stage = "ran") =>
        LET p == Selected
        IN  (p.ok /\ Len(p.shape) \in PathRanks(p) /\ p.shape[1] # batch) =>
                result = Err("Batch size mismatch in outputs")

C4_Witness ==
    /\ Returned /\ stage = "ran" /\ Selected.ok
    /\ inst.family = "Qwen3" /\ Len(Selected.shape) = 3 /\ Selected.shape[1] # batch
    /\ result = Err("Batch size mismatch in outputs")

\* The vector has L2 norm 1, or is the zero vector.
UnitOrZero(r) == r.exp10 = 0 /\ (IF SumSq(r.num) = 0 THEN r.den2 = 1 ELSE r.den2 = SumSq(r.num))

\* C5: Gemma returns the engine's output slice unchanged; every vector that BGE,
\* MiniLM, JinaV3 and Qwen3 return is normalized, on every pooling path.
C5_OnlyGemmaRaw ==
    (Returned /\ result.kind = "ok") =>
        \A i \in 1..Len(Rows) :
            IF inst.family = "Gemma"
            THEN stage = "ran" =>
                   Rows[i] = Raw([k \in 1..HIDDEN_DIM |->
                                    At("sentence_embedding", (i - 1) * HIDDEN_DIM + k - 1)])
            ELSE UnitOrZero(Rows[i])

C5_Witness ==
    /\ Returned /\ stage = "ran" /\ result.kind = "ok" /\ inst.family = "Gemma"
    /\ Len(Rows) = 2 /\ ~UnitOrZero(Rows[2])

\* C6: for every family, a selected output tensor whose rank is neither 2 nor 3 makes
\* embed return an error value: no vectors, no panic.
C6_BadRankIsError ==
    (Returned /\ stage = "ran") =>
        LET p == Selected
        IN  (p.ok /\ Len(p.shape) \notin {2, 3}) => result.kind = "err"

\* Where the slice of row i ends in the data of the selected tensor p.
SliceEnd(p, i) ==
    LET masks == BuildBatch(encodings, inst.padding).masks
    IN  IF inst.family = "Gemma" THEN i * HIDDEN_DIM
        ELSE IF Len(p.shape) = 2 THEN i * p.shape[2]
        ELSE IF inst.family \in {"MiniLM", "JinaV3"} THEN i * p.shape[2] * p.shape[3]
        ELSE IF inst.family = "BGE" THEN (i - 1) * p.shape[2] * p.shape[3] + p.shape[3]
        ELSE ((i - 1) * p.shape[2] + LastIndex(fit_mask(masks[i], p.shape[2]), p.shape[2]))
                 * p.shape[3] + p.shape[3]

\* embed got as far as its loop over the rows.
RowLoopReached(p) ==
    /\ p.ok
    /\ CASE inst.family = "BGE"    -> Len(p.shape) \in {2, 3}
         [] inst.family = "MiniLM" -> Len(p.shape) \in PathRanks(p)
         [] inst.family = "JinaV3" -> Len(p.shape) >= 3
         [] inst.family = "Gemma"  -> Len(p.shape) >= 1
         [] inst.family = "Qwen3"  -> Len(p.shape) >= 2
    /\ p.shape[1] = batch

SomeSliceOutside(p) == \E i \in 1..batch : SliceEnd(p, i) > Product(p.shape)

\* C7: if the slice of any row falls outside the returned data, embed returns an
\* error and no vectors, also for the rows before it whose slices were inside.
C7_NoPartialSuccess ==
    (Returned /\ stage = "ran" /\ RowLoopReached(Selected) /\ SomeSliceOutside(Selected)) =>
        (result.kind = "err" /\ Rows = <<>>)

C7_Witness ==
    /\ Returned /\ stage = "ran" /\ batch = 2 /\ RowLoopReached(Selected)
    /\ SliceEnd(Selected, 1) <= Product(Selected.shape)
    /\ SliceEnd(Selected, 2) > Product(Selected.shape)
    /\ result.kind = "err" /\ Rows = <<>>

\* C8: in one embed call encode_batch and session.run are each called at most once,
\* run only after encode_batch succeeded and the input tensors were built, pooling only
\* after run succeeded, and nothing is called again after a failure.
C8_CallOrder ==
    /\ encodeCalls <= 1 /\ runCalls <= 1
    /\ runCalls = 1 => (encodeCalls = 1 /\ stage \in {"encoded", "ran"} /\ inputs # <<>>)
    /\ pc = "run" => (runCalls = 1 /\ stage = "encoded")
    /\ stage = "ran" => (runCalls = 1 /\ pc = "done")
    /\ (Returned /\ result.kind = "ok" /\ \E i \in 1..Len(Rows) : RowLen(i) > 0)
          => stage = "ran"
    /\ (Returned /\ stage = "called" /\ texts # <<>>)
          => (result.kind = "err" /\ encodeCalls = 1 /\ runCalls = 0)
    /\ (Returned /\ stage = "encoded" /\ result.kind = "err") => runCalls <= 1
    /\ result.kind \in {"err", "panic"} => pc = "done"

C8_Witness ==
    /\ Returned /\ stage = "encoded" /\ result = Err("session.run failed")
    /\ encodeCalls = 1 /\ runCalls = 1

NoTokensResult ==
    /\ result.kind = "ok"
    /\ Len(Rows) = Len(texts)
    /\ \A i \in 1..Len(Rows) : Rows[i] = Raw(<<>>)
    /\ runCalls = 0

\* C9 as stated: for every family, non-empty texts whose encodings all have zero
\* tokens give one empty vector per text, and session.run is never called.
C9_Original == (Returned /\ AllEncodingsEmpty) => NoTokensResult

\* The model fixes a positive extent on axis 0 of input_ids that is not the number
\* of texts.
DeclaredBatchDisagrees ==
    \E i \in 1..Len(inst.declared) :
        /\ inst.declared[i].name = "input_ids"
        /\ \A j \in 1..(i - 1) : inst.declared[j].name # "input_ids"
        /\ inst.declared[i].tensor
        /\ inst.declared[i].shape # <<>>
        /\ inst.declared[i].shape[1] > 0
        /\ inst.declared[i].shape[1] # Len(texts)

\* C9 amended: the same, except that Qwen3 returns the batch-size-mismatch error
\* (still without calling session.run) when the model fixes a batch extent of
\* input_ids that differs from the number of texts.
C9_NoTokensNoRun ==
    (Returned /\ AllEncodingsEmpty) =>
        IF inst.family = "Qwen3" /\ DeclaredBatchDisagrees
        THEN result = Err("Batch size mismatch for input_ids") /\ runCalls = 0
        ELSE NoTokensResult

C9_Witness ==
    /\ Returned /\ AllEncodingsEmpty /\ NoTokensResult
    /\ inst.family = "Qwen3" /\ inst.declared = SigFixed /\ Len(texts) = 2

\* C10: whenever Qwen3's embed reaches session.run, it passes exactly one tensor per
\* declared input, under the declared name and in declared order, and no other.
C10_OneTensorPerDeclaredInput ==
    (pc = "run" /\ inst.family = "Qwen3") =>
        /\ Len(inputs) = Len(inst.declared)
        /\ \A i \in 1..Len(inputs) : inputs[i].name = inst.declared[i].name

C10_Witness ==
    /\ pc = "run" /\ inst.family = "Qwen3" /\ inst.declared = SigDecoder
    /\ Len(inputs) = 6 /\ batch = 2

\* embed pooled a rank-2 output of shape [batch, hidden] on its pooled-output path.
PooledPath ==
    /\ Returned /\ stage = "ran"
    /\ inst.family \in {"BGE", "MiniLM", "Qwen3", "Gemma"}
    /\ Selected.ok /\ Len(Selected.shape) = 2 /\ Selected.shape[1] = batch
    /\ inst.family = "MiniLM" => Selected.name # LHS

\* The elements data[i*hidden .. (i+1)*hidden) of the selected tensor, i from 0.
DataRow(p, i, hidden) == [k \in 1..hidden |-> At(p.name, i * hidden + k - 1)]

\* C15: on the pooled-output path of BGE, MiniLM, Qwen3 and Gemma, a rank-2 output of
\* shape [batch, hidden] gives one row per text, row i derived from exactly
\* data[i*hidden .. (i+1)*hidden) with hidden = shape[1], so of length shape[1].
C15_RowsSlicedByShape ==
    PooledPath =>
        LET p == Selected
            hidden == p.shape[2]
        IN  /\ result.kind = "ok"
            /\ Len(Rows) = batch
            /\ \A i \in 1..Len(Rows) : Rows[i].num = DataRow(p, i - 1, hidden)

\* The same for the three families that read hidden from the shape.
C15_ExceptGemma == (PooledPath /\ inst.family # "Gemma") => C15_RowsSlicedByShape

\* Gemma returned a row that is not a row of its output.
C15_GemmaWrongRow ==
    /\ PooledPath /\ inst.family = "Gemma" /\ result.kind = "ok"
    /\ Selected.shape = <<1, 2 * HIDDEN_DIM>> /\ RowLen(1) = HIDDEN_DIM

\* The outputs without the tensors named in names.
Without(outs, names) == [n \in (DOMAIN outs) \ names |-> outs[n]]

Aliases(f) == {KeysOf(f)[i] : i \in 1..Len(KeysOf(f))}

\* session.run returned a pooled-style alias of the family and last_hidden_state.
AliasAndLHS ==
    /\ Returned /\ stage = "ran" /\ inst.family \in {"BGE", "MiniLM", "Qwen3"}
    /\ Aliases(inst.family) \cap DOMAIN outputs # {}
    /\ LHS \in DOMAIN outputs

\* C13 as stated: for BGE, MiniLM and Qwen3, when the outputs hold a pooled-style alias
\* and last_hidden_state, the vectors embed returns are taken from the alias: they are
\* the vectors it returns without last_hidden_state.
C13_Original ==
    (AliasAndLHS /\ result.kind = "ok") =>
        /\ Selected.ok => Selected.name \in Aliases(inst.family)
        /\ result = Pool(inst, batch, encodings, Without(outputs, {LHS}))

\* C13 amended: that holds for BGE and Qwen3; MiniLM pools from last_hidden_state
\* whenever it is present and returns what it returns without the aliases.
C13_PooledAliasBeforeLHS ==
    AliasAndLHS =>
        IF inst.family = "MiniLM"
        THEN /\ Selected.ok => Selected.name = LHS
             /\ result = Pool(inst, batch, encodings, Without(outputs, Aliases("MiniLM")))
        ELSE /\ Selected.ok => Selected.name \in Aliases(inst.family)
             /\ result = Pool(inst, batch, encodings, Without(outputs, {LHS}))

C13_Witness ==
    /\ AliasAndLHS /\ inst.family = "BGE" /\ "pooled_output" \in DOMAIN outputs
    /\ result.kind = "ok" /\ Len(Rows) = 2 /\ RowLen(2) = 2
    /\ Rows[1].num = <<At("pooled_output", 0), At("pooled_output", 1)>>
    /\ Rows[1].num # <<At(LHS, 0), At(LHS, 1)>>

-----------------------------------------------------------------------------
(* Properties of the free functions (under UtilSpec).                       *)

Called(fn) == call.fn = fn
Arg(i) == call.args[i]

\* The vector is not the zero vector.
Nonzero(x) == SumSq(x.num) # 0

\* Every entry is a finite number: nothing was divided by zero.
Finite(x) == x.den2 > 0

\* The L2 norm of x is within 1e-3 of 1.0: 0.998001 <= norm^2 <= 1.002001, with
\* norm^2 = SumSq(num) / (den2 * 10^(2 exp10)).
NormNearOne(x) ==
    /\ ~LessScaled(SumSq(x.num), -2 * x.exp10, x.den2 * 998001, -6)
    /\ ~LessScaled(x.den2 * 1002001, -6, SumSq(x.num), -2 * x.exp10)

EndsWith(s, t) == Len(t) <= Len(s) /\ SubSeq(s, Len(s) - Len(t) + 1, Len(s)) = t

\* C12: format_query(t) is the family's query prefix followed by t and
\* format_document(t) the family's document prefix followed by t, with the prefixes
\* the claim lists (an empty prefix returns t unchanged); t is a suffix of the result.
C12_FormatIsPrefixThenText ==
    /\ Called("format_query") =>
          LET f == Arg(1)
              t == Arg(2)
              prefix ==
                CASE f = "BGE"   -> "Represent this sentence for searching relevant passages: "
                  [] f = "Gemma" -> "task: search result | query: "
                  [] f = "Qwen3" -> "Instruct: Given a web search query, retrieve relevant passages that answer the query\nQuery:"
                  [] f \in {"MiniLM", "JinaV3"} -> ""
          IN  ret.str = prefix \o t /\ EndsWith(ret.str, t)
              /\ Len(ret.str) = Len(prefix) + Len(t)
    /\ Called("format_document") =>
          LET f == Arg(1)
              t == Arg(2)
              prefix == IF f = "Gemma" THEN "title: none | text: " ELSE ""
          IN  ret.str = prefix \o t /\ EndsWith(ret.str, t)
              /\ Len(ret.str) = Len(prefix) + Len(t)

C12_Witness ==
    /\ Called("format_query") /\ Arg(1) = "Qwen3" /\ Arg(2) = "a\nb"
    /\ Len(ret.str) = Len(QWEN3_TASK) + 20 /\ EndsWith(ret.str, "Query:a\nb")

\* The first entry of order that names one of the outputs (0 when none does).
FirstPresent(order, outs) ==
    LET present == {i \in 1..Len(order) : order[i] \in DOMAIN outs}
    IN  IF present = {} THEN 0 ELSE CHOOSE i \in present : \A j \in present : i <= j

\* C14: pick_embedding_tensor returns the first alias present in the family's order
\* (BGE: sentence_embedding, pooled_output, pooler_output, embedding; MiniLM:
\* sentence_embedding, embedding, pooled_output, pooler_output; Qwen3:
\* sentence_embedding, pooled_output, embedding), last_hidden_state only when no alias
\* of the family is present, and an error when neither is; the tensor it takes must
\* hold f32, else it returns the extraction error.
C14_FirstAliasInFamilyOrder ==
    Called("pick_embedding_tensor") =>
        LET f == Arg(1)
            outs == Arg(2)
            order ==
              CASE f = "BGE" ->
                     <<"sentence_embedding", "pooled_output", "pooler_output", "embedding">>
                [] f = "MiniLM" ->
                     <<"sentence_embedding", "embedding", "pooled_output", "pooler_output">>
                [] f = "Qwen3" -> <<"sentence_embedding", "pooled_output", "embedding">>
            first == FirstPresent(order, outs)
            taken == IF first # 0 THEN order[first] ELSE "last_hidden_state"
        IN  IF taken \in DOMAIN outs
            THEN IF outs[taken].ty = "Float32"
                 THEN ret = Picked(taken, outs[taken].shape)
                 ELSE ~ret.ok /\ ret.err = "Cannot extract f32 from tensor"
            ELSE ret = NotPicked("No embedding tensor found in outputs")

C14_Witness ==
    /\ Called("pick_embedding_tensor") /\ Arg(1) = "MiniLM"
    /\ DOMAIN Arg(2) = {"embedding", "pooled_output", "last_hidden_state"}
    /\ ret = Picked("embedding", <<1, 4>>)

-----------------------------------------------------------------------------
(* Properties of the padded batch (under Spec).                               *)

\* embed built its batch and is calling session.run with it.
BatchBuilt == pc = "run"

\* Row r (from 1) of a flat row-major buffer of rows max_len long.
BufferRow(buf, r, max_len) == SubSeq(buf, (r - 1) * max_len + 1, r * max_len)

\* The tensors of the call to session.run that carry a buffer of the batch as built:
\* named name, i64, of shape [batch, max_len].
BufferTensors(name) ==
    { i \in 1..Len(inputs) :
        /\ inputs[i].name = name /\ inputs[i].ty = "Int64"
        /\ inputs[i].shape = <<Len(encodings), MaxLenOf(encodings)>> }

\* buf is the rectangular batch of the column col ("ids" or "mask") padded with pad.
Rectangular(buf, col, pad) ==
    LET n == Len(encodings)
        max_len == MaxLenOf(encodings)
    IN  /\ Len(buf) = n * max_len
        /\ \A r \in 1..n :
              LET row == encodings[r][col]
              IN  /\ Len(row) <= max_len
                  /\ BufferRow(buf, r, max_len) = row \o Repeat(pad, max_len - Len(row))

\* C16: for encodings whose ids and mask have equal length per row, the batch embed
\* builds is rectangular: max_len is the longest ids row, the flat ids and mask
\* buffers hold batch*max_len entries each, and row r of each is the original row r
\* followed by max_len - len(r) entries of padding (the tokenizer's pad id, 0 without
\* a padding configuration, for the ids; 0 for the mask), rows in input order.
C16_BatchIsRectangular ==
    BatchBuilt =>
        LET b == BuildBatch(encodings, inst.padding)
            pad_id == IF inst.padding.some THEN inst.padding.pad_id ELSE 0
        IN  /\ \A r \in 1..Len(encodings) : Len(encodings[r].ids) <= b.max_len
            /\ \E r \in 1..Len(encodings) : Len(encodings[r].ids) = b.max_len
            /\ Rectangular(b.ids, "ids", pad_id)
            /\ Rectangular(b.mask, "mask", 0)
            /\ \A i \in BufferTensors("input_ids") : inputs[i].data = b.ids
            /\ \A i \in BufferTensors("attention_mask") : inputs[i].data = b.mask
            /\ inst.family # "Qwen3" =>
                  BufferTensors("input_ids") # {} /\ BufferTensors("attention_mask") # {}

\* Two rows of different lengths were padded with a configured pad id and run.
C16_Witness ==
    /\ BatchBuilt /\ inst.padding.some /\ Len(encodings) = 2
    /\ Len(encodings[1].ids) = 1 /\ Len(encodings[2].ids) = 2
    /\ BufferTensors("input_ids") # {} /\ BufferTensors("attention_mask") # {}

-----------------------------------------------------------------------------
(* Properties of mean pooling (under UtilSpec).                               *)

\* The sequence positions whose mask entry exists and is nonzero.
Unmasked(mask, seq_len) == {j \in 1..seq_len : j <= Len(mask) /\ mask[j] # 0}

\* embeddings[[j, h]], both from 1.
Entry(m, j, h) == m.data[(j - 1) * m.hidden_size + h]

\* Per hidden component, the sum over the unmasked positions divided by their number.
MeanOfUnmasked(m, mask) ==
    LET U == Unmasked(mask, m.seq_len)
    IN  [num  |-> [h \in 1..m.hidden_size |->
                     SumF32([j \in 1..m.seq_len |-> Entry(m, j, h)], U)],
         den2 |-> Cardinality(U) * Cardinality(U), exp10 |-> 0]

\* The matrix m with the value v at [j, h].
WithEntry(m, j, h, v) == [m EXCEPT !.data[(j - 1) * m.hidden_size + h] = v]

\* Every value of m at a masked position is finite.
MaskedFinite(m, mask) ==
    \A j \in (1..m.seq_len) \ Unmasked(mask, m.seq_len), h \in 1..m.hidden_size :
        Entry(m, j, h) # NaN

\* mean_pooling_ndarray was called on a matrix with a column and an unmasked position.
PooledSomething ==
    /\ Called("mean_pooling_ndarray")
    /\ Arg(1).hidden_size > 0 /\ Unmasked(Arg(2), Arg(1).seq_len) # {}

\* The values at the masked positions do not influence the result: any of the values
\* vals at any masked position pools to the same vector.
MaskedIgnored(vals) ==
    LET m == Arg(1)
        mask == Arg(2)
    IN  \A j \in (1..m.seq_len) \ Unmasked(mask, m.seq_len), h \in 1..m.hidden_size, v \in vals :
            LET m2 == WithEntry(m, j, h, v)
            IN  mean_pooling_ndarray(m2.data, m2.seq_len, m2.hidden_size, mask) = ret

\* C17 as stated: mean pooling of a seq x hidden matrix under a mask is, per hidden
\* component, the sum over exactly the positions whose mask entry is nonzero divided
\* by their number, and the values at positions whose mask entry is 0 or that lie
\* beyond the end of a shorter mask never influence the result.
C17_Original ==
    PooledSomething => ret = MeanOfUnmasked(Arg(1), Arg(2)) /\ MaskedIgnored(F32Values)

\* C17: the same when the values at the masked positions are finite: the masked rows
\* are multiplied by 0.0, not left out, and a NaN or an infinity times 0.0 is NaN.
C17_MeanOfUnmaskedWhenFinite ==
    (PooledSomething /\ MaskedFinite(Arg(1), Arg(2))) =>
        ret = MeanOfUnmasked(Arg(1), Arg(2)) /\ MaskedIgnored(F32Values \ {NaN})

\* Two finite rows pooled under a mask shorter than the sequence with an entry above 1.
C17_Witness ==
    /\ PooledSomething /\ MaskedFinite(Arg(1), Arg(2))
    /\ Arg(1).seq_len = 2 /\ Arg(1).hidden_size = 2 /\ Arg(2) = <<2>>
    /\ Arg(1).data = <<-1, 2, 2, 2>> /\ ret.num = <<-1, 2>> /\ ret.den2 = 1

\* Every entry of the mask is 0.
AllZero(mask) == \A j \in 1..Len(mask) : mask[j] = 0

\* The rows are all as long as the first.
SameLengths(rows) == \A j \in 1..Len(rows) : Len(rows[j]) = Len(rows[1])

\* C18 as stated: for every sequence length and every hidden size, mean pooling under
\* an all-zero mask returns exactly hidden entries, all 0, without dividing by the
\* zero count.
C18_Original ==
    /\ (Called("mean_pooling_ndarray") /\ AllZero(Arg(2))) =>
           ret = Raw(Zeros(Arg(1).hidden_size))
    /\ (Called("mean_pooling_vec") /\ Arg(1) # <<>> /\ SameLengths(Arg(1)) /\ AllZero(Arg(2))) =>
           ret = Raw(Zeros(Len(Arg(1)[1])))

\* C18: the same for a sequence length of at least 1 and, for mean_pooling_vec, a mask as
\* long as the sequence; without rows the result is empty whatever the hidden size, and
\* mean_pooling_vec answers a mask of another length with the empty vector.
C18_ZerosForZeroMask ==
    /\ (Called("mean_pooling_ndarray") /\ Unmasked(Arg(2), Arg(1).seq_len) = {}) =>
           ret = (IF Arg(1).seq_len = 0 THEN Raw(<<>>) ELSE Raw(Zeros(Arg(1).hidden_size)))
    /\ (Called("mean_pooling_vec") /\ Arg(1) # <<>> /\ SameLengths(Arg(1)) /\ AllZero(Arg(2))) =>
           ret = (IF Len(Arg(2)) = Len(Arg(1)) THEN Raw(Zeros(Len(Arg(1)[1]))) ELSE Raw(<<>>))

\* Two rows holding a value that is not finite pooled under the mask [0, 0].
C18_Witness ==
    /\ Called("mean_pooling_ndarray") /\ Arg(2) = <<0, 0>>
    /\ Arg(1).seq_len = 2 /\ Arg(1).hidden_size = 2 /\ Arg(1).data = <<NaN, 2, -1, NaN>>
    /\ ret = Raw(<<0, 0>>)

\* mean_pooling_vec on two rows of two values under the mask [0, 0].
C18_WitnessVec ==
    /\ Called("mean_pooling_vec") /\ Arg(2) = <<0, 0>>
    /\ Arg(1) = << <<-1, 2>>, <<2, 2>> >> /\ ret = Raw(<<0, 0>>)

-----------------------------------------------------------------------------
(* Properties of Qwen3's last-token pooling (under Spec).                     *)

\* Qwen3's embed took the per-token arm on a rank-3 output of its batch size.
LastTokenPath ==
    /\ Returned /\ stage = "ran" /\ inst.family = "Qwen3"
    /\ Selected.ok /\ Len(Selected.shape) = 3 /\ Selected.shape[1] = batch

\* Entry j (from 0) of row i's mask fitted to seq entries: the tokenizer's mask, cut
\* at seq or continued with zeros.
FittedBit(i, j) == IF j < Len(encodings[i].mask) THEN encodings[i].mask[j + 1] ELSE 0

\* The highest index below seq whose fitted mask entry is 1, seq - 1 without one.
LastSetIndex(i, seq) ==
    LET S == {j \in 0..(seq - 1) : FittedBit(i, j) = 1}
    IN  IF S # {} THEN CHOOSE j \in S : \A k \in S : k <= j ELSE seq - 1

\* The hidden values of row i (from 1) at sequence index j (from 0) of the tensor p.
TokenVector(p, i, j) ==
    LET seq == p.shape[2]
        hidden == p.shape[3]
    IN  [k \in 1..hidden |-> At(p.name, ((i - 1) * seq + j) * hidden + k - 1)]

\* C19: on Qwen3's rank-3 [batch, seq, hidden] path the vector of row i is taken at the
\* highest sequence index j < seq whose entry in row i's mask, fitted to length seq by
\* truncation or zero-extension, is set, and at index seq - 1 when none is set.
C19_LastValidToken ==
    LastTokenPath =>
        LET p == Selected
            seq == p.shape[2]
        IN  /\ seq >= 1 => result.kind = "ok"
            /\ result.kind = "ok" =>
                  /\ Len(Rows) = batch
                  /\ \A i \in 1..Len(Rows) :
                        Rows[i] = normalize(Raw(TokenVector(p, i, LastSetIndex(i, seq))))

\* Two rows over two positions: the first row's mask [1] is zero-extended and selects
\* index 0, the second row's mask [0, 0] has no entry set and selects index 1.
C19_Witness ==
    /\ LastTokenPath /\ result.kind = "ok" /\ Selected.shape = <<2, 2, 1>>
    /\ encodings[1].mask = <<1>> /\ encodings[2].mask = <<0, 0>>
    /\ Rows[1].num = TokenVector(Selected, 1, 0) /\ Rows[2].num = TokenVector(Selected, 2, 1)
    /\ TokenVector(Selected, 1, 0) # TokenVector(Selected, 1, 1)

-----------------------------------------------------------------------------
(* Properties of the rank-4 attention mask (under Spec).                      *)

\* The declared inputs named attention_mask that are tensors of rank 4 with every axis
\* dynamic.
Rank4Masks ==
    { i \in 1..Len(inst.declared) :
        /\ inst.declared[i].name = "attention_mask" /\ inst.declared[i].tensor
        /\ Len(inst.declared[i].shape) = 4
        /\ \A a \in 1..4 : inst.declared[i].shape[a] < 0 }

\* Sample b's mask padded to max_len: the tokenizer's mask followed by zeros.
PaddedMaskOf(b, max_len) ==
    [k \in 1..max_len |-> IF k <= Len(encodings[b].mask) THEN encodings[b].mask[k] ELSE 0]

\* The row [b, 0, q, :] (b and q from 1) of a tensor of shape [batch, 1, max_len, max_len].
BiasRow(t, b, q, max_len) ==
    SubSeq(t.data, ((b - 1) * max_len + (q - 1)) * max_len + 1,
                   ((b - 1) * max_len + (q - 1)) * max_len + max_len)

\* C20: for a model declaring attention_mask with rank 4 and all axes dynamic, Qwen3's
\* embed synthesizes a tensor of shape [batch, 1, max_len, max_len] holding
\* batch*max_len*max_len entries in which, for every sample b and every query position
\* q, the row [b, 0, q, :] is sample b's padded mask of length max_len.
C20_Rank4MaskBroadcast ==
    (inst.family = "Qwen3" /\ BatchBuilt) =>
        \A i \in Rank4Masks :
            LET t == inputs[i]
                n == Len(encodings)
                max_len == MaxLenOf(encodings)
            IN  /\ Len(inputs) = Len(inst.declared)
                /\ t.name = "attention_mask"
                /\ t.shape = <<n, 1, max_len, max_len>>
                /\ Len(t.data) = n * max_len * max_len
                /\ \A b \in 1..n, q \in 1..max_len :
                      BiasRow(t, b, q, max_len) = PaddedMaskOf(b, max_len)

\* Two samples with the masks [1] and [1, 1]: four rows of two entries each.
C20_Witness ==
    /\ inst.family = "Qwen3" /\ BatchBuilt /\ Rank4Masks # {}
    /\ Len(encodings) = 2 /\ encodings[1].mask = <<1>> /\ encodings[2].mask = <<1, 1>>
    /\ \A i \in Rank4Masks : inputs[i].data = <<1, 0, 1, 0, 1, 1, 1, 1>>

-----------------------------------------------------------------------------
(* Properties of Qwen3's rank-1 inputs (under Spec).                          *)

\* The declared inputs named attention_mask, position_ids or cache_position that are
\* tensors of rank 1.
Rank1Roles ==
    { i \in 1..Len(inst.declared) :
        /\ inst.declared[i].name \in {"attention_mask", "position_ids", "cache_position"}
        /\ inst.declared[i].tensor /\ Len(inst.declared[i].shape) = 1 }

\* The call ended in an error without session.run having been called.
FailedBeforeRun == pc = "done" /\ result.kind = "err" /\ runCalls = 0

\* The max_len values of the single row for the declared input i: its mask, or the
\* positions 0..max_len-1, in the declared element type.
SingleRowValues(i) ==
    LET max_len == Len(encodings[1].ids)
    IN  [k \in 1..max_len |->
           CastI64(inst.declared[i].ty,
                   IF inst.declared[i].name = "attention_mask" THEN encodings[1].mask[k]
                   ELSE k - 1)]

\* With one text the rank-1 tensors hold the single row's values.
Rank1SingleRow ==
    (pc = "run" /\ Len(texts) = 1) =>
        \A i \in Rank1Roles :
            /\ inputs[i].name = inst.declared[i].name
            /\ inputs[i].shape = <<Len(encodings[1].ids)>>
            /\ inputs[i].data = SingleRowValues(i)

\* C21 as stated: when Qwen3's model declares attention_mask, position_ids or
\* cache_position with rank 1 and there is more than one text, embed returns an error
\* before session.run; with one text the rank-1 tensor holds that row's max_len values.
C21_Original ==
    (inst.family = "Qwen3" /\ Rank1Roles # {}) =>
        /\ (Returned /\ Len(texts) > 1) => FailedBeforeRun
        /\ Len(texts) > 1 => pc # "run"
        /\ Rank1SingleRow

\* C21: the same when some encoding has a token; when every encoding is empty embed
\* returns its empty vectors before it looks at the declared inputs.
C21_Rank1NeedsSingleRow ==
    (inst.family = "Qwen3" /\ Rank1Roles # {}) =>
        /\ (Returned /\ Len(texts) > 1) =>
              IF stage = "encoded" /\ AllEncodingsEmpty /\ ~DeclaredBatchDisagrees
              THEN NoTokensResult
              ELSE FailedBeforeRun
        /\ Len(texts) > 1 => pc # "run"
        /\ Rank1SingleRow

\* Two texts with tokens and a rank-1 cache_position: the error, and no run.
C21_Witness ==
    /\ inst.family = "Qwen3" /\ inst.declared = SigTransposed
    /\ Returned /\ Len(texts) = 2 /\ stage = "encoded" /\ ~AllEncodingsEmpty
    /\ result = Err("position_ids rank 1 is not batch-compatible") /\ runCalls = 0

\* One text of two tokens and a rank-1 attention_mask and position_ids: the run is
\* called with the row's mask and the positions 0, 1.
C21_WitnessSingle ==
    /\ inst.family = "Qwen3" /\ inst.declared = SigRank1 /\ pc = "run"
    /\ Len(texts) = 1 /\ inputs[2].data = <<1, 1>> /\ inputs[3].data = <<0, 1>>

\* Some declared input_ids, attention_mask or position_ids of rank 2 fixes an extent
\* that is not the batch size (axis 0) or not max_len (axis 1).
FixedExtentDisagrees ==
    /\ encodings # <<>>
    /\ \E i \in 1..Len(inst.declared) :
          LET input == inst.declared[i]
          IN  /\ input.name \in {"input_ids", "attention_mask", "position_ids"}
              /\ input.tensor /\ Len(input.shape) = 2
              /\ \/ input.shape[1] >= 0 /\ input.shape[1] # Len(texts)
                 \/ input.shape[2] >= 0 /\ input.shape[2] # MaxLenOf(encodings)

\* C24, for a batch in which some encoding has a token: a Qwen3 embed call whose model
\* fixes an extent of input_ids, attention_mask or position_ids that disagrees with
\* batch or max_len fails before session.run is invoked.
C24_MismatchFailsBeforeRun ==
    (inst.family = "Qwen3" /\ FixedExtentDisagrees /\ ~AllEncodingsEmpty) =>
        /\ pc # "run" /\ runCalls = 0
        /\ Returned => FailedBeforeRun

\* One text of two tokens and an attention_mask declared [2, 1]: the product of the
\* declared extents is batch * max_len, so the mask row [1, 1] is handed to session.run
\* as a tensor of shape [2, 1].
C24_ReshapedReachesRun ==
    /\ inst.family = "Qwen3" /\ inst.declared = SigTransposed /\ pc = "run"
    /\ Len(texts) = 1 /\ MaxLenOf(encodings) = 2
    /\ inputs[2].name = "attention_mask"
    /\ inputs[2].shape = <<2, 1>> /\ inputs[2].data = <<1, 1>>

\* The batch-size-mismatch error of the declared inputs, with nothing built and
\* session.run not called.
DeclaredMismatchError ==
    /\ result = Err("Batch size mismatch for input_ids")
    /\ inputs = <<>> /\ runCalls = 0

\* session.run is called with the number of texts as the batch size: the rank-2
\* input_ids, attention_mask and position_ids have that many rows.
BatchIsTextCount ==
    /\ batch = Len(texts)
    /\ \A i \in 1..Len(inputs) :
          (/\ inputs[i].name \in {"input_ids", "attention_mask", "position_ids"}
           /\ Len(inst.declared[i].shape) = 2 /\ inst.declared[i].shape[1] < 0)
          => inputs[i].shape[1] = Len(texts)

\* C26 as stated: when Qwen3's model fixes a positive extent on axis 0 of input_ids
\* that differs from the number of texts, embed returns the batch-size-mismatch error
\* with no input tensor built and session.run not called; otherwise the batch size is
\* the number of texts.
C26_Original ==
    inst.family = "Qwen3" =>
        /\ (Returned /\ DeclaredBatchDisagrees) => DeclaredMismatchError
        /\ DeclaredBatchDisagrees => pc # "run"
        /\ pc = "run" => BatchIsTextCount

\* C26: the same for a call whose texts are not empty and were encoded by the
\* tokenizer: the check follows the early return on no texts and the call of
\* encode_batch.
C26_DeclaredBatchChecked ==
    inst.family = "Qwen3" =>
        /\ (Returned /\ DeclaredBatchDisagrees) =>
              IF texts = <<>> THEN result = Ok(<<>>) /\ runCalls = 0
              ELSE IF stage = "encoded" THEN DeclaredMismatchError
              ELSE result.kind = "err" /\ runCalls = 0
        /\ DeclaredBatchDisagrees => pc # "run"
        /\ pc = "run" => BatchIsTextCount

\* One text for a model whose input_ids are declared [2, 2]: the mismatch error.
C26_Witness ==
    /\ inst.family = "Qwen3" /\ inst.declared = SigFixed /\ Len(texts) = 1
    /\ Returned /\ stage = "encoded" /\ DeclaredMismatchError

\* Two texts for the same model: session.run is called with a batch of 2.
C26_WitnessEqual ==
    /\ inst.family = "Qwen3" /\ inst.declared = SigFixed /\ Len(texts) = 2
    /\ pc = "run" /\ batch = 2 /\ inputs[2].shape = <<2, 2>>

\* Some declared input is not a tensor, or is a tensor of an element kind outside the
\* thirteen of the builders.
DeclaresUnsupported ==
    \E i \in 1..Len(inst.declared) :
        ~inst.declared[i].tensor \/ inst.declared[i].ty \notin SupportedTypes

\* When Qwen3's loop over the declared inputs is entered with such an input, embed ends
\* in an error and session.run is never called.
C25_UnsupportedFailsEmbed ==
    (inst.family = "Qwen3" /\ DeclaresUnsupported /\ encodings # <<>> /\ ~AllEncodingsEmpty) =>
        /\ pc # "run" /\ runCalls = 0
        /\ Returned => FailedBeforeRun

-----------------------------------------------------------------------------
(* Properties of the shape resolvers and tensor builders (under UtilSpec).    *)

\* C22: resolve_shape_with_fallback returns the fallback itself when the declared rank
\* differs from the fallback's; otherwise a shape of that rank in which an axis with a
\* non-negative declared extent (0 included) keeps it and an axis with a negative one
\* takes the fallback's value at that position; a non-tensor input type is an error.
C22_ResolveShape ==
    Called("resolve_shape_with_fallback") =>
        LET dtype == Arg(1)
            fallback == Arg(2)
        IN  IF ~dtype.tensor THEN ~ret.ok
            ELSE IF Len(dtype.shape) # Len(fallback) THEN ret.ok /\ ret.shape = fallback
            ELSE /\ ret.ok
                 /\ Len(ret.shape) = Len(fallback)
                 /\ \A i \in 1..Len(fallback) :
                       /\ dtype.shape[i] >= 0 => ret.shape[i] = dtype.shape[i]
                       /\ dtype.shape[i] < 0 => ret.shape[i] = fallback[i]

\* A declared [0, -1, 3] against the fallback [2, 1, 1] resolves to [0, 1, 3].
C22_Witness ==
    /\ Called("resolve_shape_with_fallback")
    /\ Arg(1).tensor /\ Arg(1).shape = <<0, -1, 3>> /\ Arg(2) = <<2, 1, 1>>
    /\ ret.ok /\ ret.shape = <<0, 1, 3>>

\* The past-kv arm kept the non-negative extents, built a tensor of the resolved shape
\* and filled it with zeros.
PastKvKeptAndZeroed ==
    LET dtype == Arg(1)
    IN  /\ ret.shape.ok /\ ret.tensor.ok
        /\ Len(ret.shape.shape) = Len(dtype.shape)
        /\ \A i \in 1..Len(dtype.shape) :
              dtype.shape[i] >= 0 => ret.shape.shape[i] = dtype.shape[i]
        /\ ret.tensor.tensor.shape = ret.shape.shape
        /\ ret.tensor.tensor.data = Zeros(Product(ret.shape.shape))

\* C23 as stated: for a past_key_values input of any rank the resolved shape keeps the
\* non-negative extents, a dynamic axis 0 becomes the batch size, a dynamic
\* second-from-last axis becomes 0, every other dynamic axis becomes 1, and the tensor
\* is filled with zeros.
C23_Original ==
    (Called("resolve_past_kv_shape") /\ Arg(1).tensor) =>
        LET dtype == Arg(1)
            rank == Len(dtype.shape)
        IN  /\ PastKvKeptAndZeroed
            /\ \A i \in 1..rank :
                  dtype.shape[i] < 0 =>
                    /\ i = 1 => ret.shape.shape[i] = Arg(2)
                    /\ i = rank - 1 => ret.shape.shape[i] = 0
                    /\ (i # 1 /\ i # rank - 1) => ret.shape.shape[i] = 1

\* C23: the same with the batch axis first: a dynamic axis 0 is the batch size also when
\* it is the second-from-last axis (rank 2); a non-tensor input type is an error.
C23_PastKvShape ==
    Called("resolve_past_kv_shape") =>
        LET dtype == Arg(1)
            rank == Len(dtype.shape)
        IN  IF ~dtype.tensor THEN ~ret.shape.ok /\ ~ret.tensor.ok
            ELSE /\ PastKvKeptAndZeroed
                 /\ \A i \in 1..rank :
                       dtype.shape[i] < 0 =>
                         ret.shape.shape[i] = (IF i = 1 THEN Arg(2)
                                               ELSE IF i = rank - 1 THEN 0
                                               ELSE 1)

\* A declared [-1, 3, -1] with a batch of 2 resolves to [2, 3, 1]; [-1, -2, -1] to
\* [2, 0, 1], a tensor without elements.
C23_Witness ==
    /\ Called("resolve_past_kv_shape") /\ Arg(1).tensor
    /\ Arg(1).shape = <<-1, -2, -1>> /\ Arg(2) = 2
    /\ ret.shape.shape = <<2, 0, 1>> /\ ret.tensor.ok /\ ret.tensor.tensor.data = <<>>

\* tensor_from_i64 compares the number of elements only: a tensor is built exactly when
\* the input is a tensor of a supported element kind and the product of the resolved
\* extents is the data length; a different product is the length-mismatch error for
\* every element kind, String included.
C24_ProductOnly ==
    (Called("tensor_from_i64") /\ Arg(1).tensor) =>
        /\ ret.ok <=> (Product(Arg(2)) = Len(Arg(3)) /\ Arg(1).ty \in SupportedTypes)
        /\ Product(Arg(2)) # Len(Arg(3)) => ret.err = "Input data length mismatch"
        /\ ret.ok => (ret.tensor.shape = Arg(2) /\ Len(ret.tensor.data) = Len(Arg(3)))

\* The element kinds the claim lists.
ListedKinds ==
    {"Int8", "Int16", "Int32", "Int64", "Uint8", "Uint16", "Uint32", "Uint64", "Bool",
     "Float16", "Bfloat16", "Float32", "Float64"}

\* The builder called accepted its input type: a tensor was returned.
Accepted == ret.ok /\ ret.tensor.ty = Arg(1).ty /\ ret.tensor.shape = Arg(2)

\* C25: tensor_from_i64 (given data of the right length) and zeros_tensor accept exactly
\* the listed element kinds; for every other kind, and for an input type that is not a
\* tensor, both return an error and no tensor.
C25_SameAcceptedKinds ==
    /\ (Called("tensor_from_i64") /\ Product(Arg(2)) = Len(Arg(3))) =>
          IF Arg(1).tensor /\ Arg(1).ty \in ListedKinds THEN Accepted
          ELSE ~ret.ok /\ ret.err = (IF Arg(1).tensor THEN "Unsupported tensor element type"
                                     ELSE "Unsupported input type")
    /\ Called("tensor_from_i64") =>
          ((~Arg(1).tensor \/ Arg(1).ty \notin ListedKinds) => ~ret.ok)
    /\ Called("zeros_tensor") =>
          IF Arg(1).tensor /\ Arg(1).ty \in ListedKinds THEN Accepted
          ELSE ~ret.ok /\ ret.err = (IF Arg(1).tensor THEN "Unsupported tensor element type"
                                     ELSE "Unsupported input type")

\* zeros_tensor builds a Bfloat16 tensor of shape [2, 1] and rejects String.
C25_Witness ==
    /\ Called("zeros_tensor") /\ Arg(1).ty = "Bfloat16" /\ Arg(2) = <<2, 1>>
    /\ ret.ok /\ ret.tensor.data = <<0, 0>>

\* tensor_from_i64 rejects a String tensor whose data have the right length.
C25_WitnessString ==
    /\ Called("tensor_from_i64") /\ Arg(1).ty = "String"
    /\ Product(Arg(2)) = Len(Arg(3)) /\ Len(Arg(3)) = 2
    /\ ~ret.ok /\ ret.err = "Unsupported tensor element type"

IntegerKinds == {"Int8", "Int16", "Int32", "Int64", "Uint8", "Uint16", "Uint32", "Uint64"}
FloatKinds == {"Float16", "Bfloat16", "Float32", "Float64"}

\* The width in bits of an integer kind, and whether it is signed.
Width(ty) ==
    CASE ty \in {"Int8", "Uint8"} -> 8
      [] ty \in {"Int16", "Uint16"} -> 16
      [] ty \in {"Int32", "Uint32"} -> 32
      [] OTHER -> 64
Signed(ty) == ty \in {"Int8", "Int16", "Int32", "Int64"}

\* v lies between the least and the greatest value of the kind. The integers of the
\* model all lie within the 32- and 64-bit signed kinds; the greatest finite Float16 is
\* 65504 and the other floating kinds reach beyond every integer of the model.
InRange(ty, v) ==
    CASE ty \in {"Int32", "Int64"} -> TRUE
      [] ty \in {"Uint32", "Uint64"} -> v >= 0
      [] ty \in {"Int8", "Int16"} -> -(2^(Width(ty) - 1)) <= v /\ v < 2^(Width(ty) - 1)
      [] ty \in {"Uint8", "Uint16"} -> 0 <= v /\ v < 2^Width(ty)
      [] ty = "Float16" -> -65504 <= v /\ v <= 65504
      [] OTHER -> TRUE

\* The significand of a floating kind, in bits (with the implicit one).
Significand(ty) ==
    CASE ty = "Float16" -> 11 [] ty = "Bfloat16" -> 8 [] ty = "Float32" -> 24 [] OTHER -> 53

\* v is a value of the floating kind: an integer of at most Significand bits times a
\* power of two, within the range.
IsValueOf(ty, v) ==
    LET a == IF v < 0 THEN -v ELSE v
    IN  /\ InRange(ty, v)
        /\ \/ Significand(ty) > 30
           \/ \E k \in 0..30 : a % (2^k) = 0 /\ a \div (2^k) < 2^Significand(ty)

\* The stored element c is the i64 v reduced modulo 2^w into the integer kind's range.
ReducedModulo(ty, v, c) ==
    IF Width(ty) >= 32 THEN c = (IF InRange(ty, v) THEN v ELSE Wrapped(Width(ty), v))
    ELSE /\ InRange(ty, c)
         /\ (c - v) % (2^Width(ty)) = 0

\* What the claim says of the elements of the tensor built, with `within the range`
\* of a floating kind read as a value of the kind (byValue) or as lying between its
\* least and greatest value.
CastAsClaimed(byValue) ==
    (Called("tensor_from_i64") /\ ret.ok) =>
        LET ty == Arg(1).ty
        IN  \A k \in 1..Len(Arg(3)) :
              LET v == Arg(3)[k]
                  c == ret.tensor.data[k]
              IN  CASE ty = "Bool" -> c = (IF v = 0 THEN 0 ELSE 1)
                    [] ty \in IntegerKinds -> /\ InRange(ty, v) => c = v
                                              /\ ReducedModulo(ty, v, c)
                    [] OTHER -> (IF byValue THEN IsValueOf(ty, v) ELSE InRange(ty, v))
                                => c = v

C27_WitnessRounded ==
    /\ Called("tensor_from_i64") /\ Arg(1).ty = "Bfloat16" /\ Arg(3) = <<257, 2>>
    /\ ret.ok /\ ret.tensor.data = <<256, 2>>

\* The squared norm of v is zero: every entry is 0 (the empty vector included).
ZeroNorm(v) == \A i \in 1..Len(v.num) : v.num[i] = 0

\* The f32 sum of squares of v is 0.0: every entry is 0 or so small that its square is.
ZeroNormF32(v) == \A i \in 1..Len(v.num) : v.num[i] # NaN /\ (v.num[i] = 0 \/ 2 * v.exp10 < -46)

\* Every entry of v is finite and its square is at most f32::MAX.
SquaresFinite(v) == \A i \in 1..Len(v.num) : v.num[i] # NaN /\ (v.num[i] = 0 \/ 2 * v.exp10 <= 38)

\* The value returned is 1 - s for a similarity s with -1 <= s <= 1: a number in [0, 2].
InZeroToTwo(r) ==
    r.ok /\ r.val.one_minus.kind = "fin"
    /\ ~SimAbove(r.val.one_minus) /\ ~SimBelow(r.val.one_minus)

C30_WitnessNaN ==
    /\ Called("cosine_distance")
    /\ Arg(1) = [num |-> <<2>>, exp10 |-> 20] /\ Arg(2) = Arg(1)
    /\ ret.ok /\ ret.val.one_minus.kind = "nan"

-----------------------------------------------------------------------------
(* Properties of the tokenizer registry (under RegistrySpec).                 *)

\* The callers that hold a handle from next_id and have not inserted yet.
Inserting == {t \in Threads : threads[t].pc = "insert"}

\* C28: under every interleaving of concurrent loads, a successful load returns a handle
\* that is at least 1 and that no other load returns, and no load is about to insert
\* under a handle the store already holds or another load is about to use.
C28_UniqueHandles ==
    /\ (Called("load_tokenizer_from_json") /\ ret.ok) => ret.val >= 1
    /\ \A h \in Handles : returned[h] <= 1
    /\ returned[0] = 0
    /\ \A t \in Inserting :
          /\ threads[t].id >= 1
          /\ threads[t].id \notin DOMAIN STORE
          /\ \A u \in Inserting \ {t} : threads[u].id # threads[t].id

\* Two loads overlap: t1 took handle 1 and has not inserted yet, while t2 took handle 2
\* and has already returned it.
C28_Witness ==
    /\ threads["t1"].pc = "insert" /\ threads["t1"].id = 1
    /\ Called("load_tokenizer_from_json") /\ ret = OkOf(2)
    /\ returned[2] = 1 /\ DOMAIN STORE = {2}

\* The functions that take a handle.
HandleOps == {"encode", "encode_batch", "decode", "decode_batch", "add_special_tokens"}

\* This step is a call of one of them.
HandleOpStep ==
    /\ call'.fn \in HandleOps
    /\ COUNTER' = COUNTER /\ threads' = threads /\ returned' = returned
    /\ <<call, ret, STORE>>' # <<call, ret, STORE>>

\* C29: the handle a load returned stays in the store, and a later encode,
\* encode_batch, decode, decode_batch or add_special_tokens given it does not fail with
\* "Unknown tokenizer id"; given a handle that no load returned, the call fails with
\* that error and leaves the store as it was; no step removes an entry.
C29_HandlesStayResolvable ==
    /\ [](\A h \in Handles : returned[h] > 0 => h \in DOMAIN STORE)
    /\ [][/\ DOMAIN STORE \subseteq DOMAIN STORE'
          /\ HandleOpStep =>
                IF returned[call'.args[1]] > 0
                THEN ret'.err # "Unknown tokenizer id"
                ELSE ret' = ErrOf("Unknown tokenizer id") /\ STORE' = STORE]_vars

\* After three loads, add_special_tokens on the first handle adds a token to its
\* tokenizer.
C29_Witness ==
    /\ Called("add_special_tokens") /\ Arg(1) = 1 /\ ret = OkOf(1)
    /\ DOMAIN STORE = {1, 2, 3} /\ STORE[1].special = {"[X]"}

\* decode with the handle 3 when two loads have returned 1 and 2.
C29_WitnessUnknown ==
    /\ Called("decode") /\ Arg(1) = 3 /\ ret = ErrOf("Unknown tokenizer id")
    /\ DOMAIN STORE = {1, 2}

====
